---- MODULE Spec2Model ----
(***************************************************************************)
(* Model of the resumable, parallel Google Maps collector                  *)
(* (gmaps_extractor/extraction/collector_v2.py and enrichment.py).         *)
(*                                                                         *)
(* Python values are modelled as follows.  An optional number (a latitude *)
(* that may be None) is the empty sequence <<>> for None and <<n>> for n.  *)
(* An identifier that may be missing is the empty string.  A file is a     *)
(* record with an `exists` flag and its content.                           *)
(***************************************************************************)
EXTENDS Integers, Sequences, FiniteSets, TLC

\* ------------------------------------------------------------------ bounds
\* Number of cells generate_grid returns for the run's boundary.
NumCells == 2
\* Largest parallel_workers argument tried.
MaxWorkers == 2
\* The search backend holds at most MaxPages full pages for one cell query.
MaxPages == 1
\* results_per_page handed to query_cell_with_retry.
ResultsPerPage == 2
\* checkpoint_interval argument of collect_businesses_v2.
CheckpointInterval == 2
\* Sink write errors (OSError on the JSONL append) the environment may inject in one run.
MaxSinkFaults == 1
\* Coordinates of a boundary handed to generate_grid range over 0..MaxCoord ticks.
MaxCoord == 6
\* record_error is followed up to this many errors in a row.
MaxErrorStreak == 3
\* Threads that share one RateLimiter, and the calls each of them makes.
NumThreads == 2
CallsPerThread == 2

\* ------------------------------------------------------- program constants
\* max_retries of the parallel pass (default argument) and of the Retry Pass.
FirstPassRetries == 3
RetryPassRetries == 5

AreaName == "area"
Category == "cat"
BufferKm == 5
\* filter_boundary returned by get_area_boundary (degrees, scaled to integers).
FilterBoundary == [south |-> 1, north |-> 3, west |-> 1, east |-> 3]

\* ----------------------------------------------------------------- helpers
None == <<>>
Some(n) == <<n>>

Range(s) == {s[i] : i \in 1..Len(s)}

Min2(a, b) == IF a <= b THEN a ELSE b

\* Python truthiness of an optional number: None and 0 are falsy.
Truthy(x) == x # None /\ x[1] # 0

\* list.remove(x): drops the first occurrence of x (the callers test membership first).
RECURSIVE ListRemove(_, _)
ListRemove(s, x) ==
    IF s = <<>> THEN <<>>
    ELSE IF Head(s) = x THEN Tail(s)
    ELSE <<Head(s)>> \o ListRemove(Tail(s), x)

\* str(cell.cell_id) of the cells of generate_grid, in grid order.
CellIds == [i \in 1..NumCells |-> ToString(i - 1)]

\* ------------------------------------------------------ the search backend
\* A business record as execute_search returns it.  details and reviews_data
\* tell whether enrichment has merged place details and attached reviews.
Biz(p, h, lat, lng) ==
    [place_id |-> p, hex_id |-> h, latitude |-> lat, longitude |-> lng, found_in |-> "",
     details |-> FALSE, reviews_data |-> FALSE]

\* Records the backend may return: A inside the boundary; B shares A's place_id
\* and has no coordinates; C shares A's hex_id and lacks a longitude; D outside
\* the boundary; E outside the boundary with latitude 0; F carries no identifier;
\* G inside the boundary with identifiers of its own.
RecA == Biz("p1", "h1", Some(2), Some(2))
RecB == Biz("p1", "h2", None, None)
RecC == Biz("p2", "h1", Some(2), None)
RecD == Biz("p3", "", Some(5), Some(2))
RecE == Biz("p4", "", Some(0), Some(2))
RecF == Biz("", "", Some(2), Some(2))
RecG == Biz("p5", "h5", Some(2), Some(2))

\* What the backend may hold for a query: a page is a prefix of one of the
\* streams of the run's backend.
StreamAB == <<RecA, RecB, RecA, RecC>>
StreamCA == <<RecC, RecA, RecB, RecF>>
StreamED == <<RecE, RecD, RecF, RecA>>
StreamGA == <<RecG, RecA, RecF, RecC>>
StreamFF == <<RecF, RecF, RecD, RecE>>

PagesOf(streams) ==
    {SubSeq(s, 1, n) : s \in streams, n \in 0..Min2(ResultsPerPage, 4)}

\* ------------------------------------------------------------ CollectionState
\* CollectionState(area_name, category, buffer_km, use_subdivision): the defaults.
\* `untyped` names the fields that hold a value of the wrong type (a checkpoint
\* file is not validated by load, so such a value can be loaded).
NewState(area, cat, buf, sub) ==
    [area_name |-> area, category |-> cat, buffer_km |-> buf, use_subdivision |-> sub,
     completed_cells |-> <<>>, failed_cells |-> <<>>, businesses_count |-> 0,
     collected_place_ids |-> {}, collected_hex_ids |-> {}, enriched_place_ids |-> {},
     untyped |-> {}]

\* A path at which nothing exists.
NoFile == [exists |-> FALSE]

\* list(a_set): the orders in which the runtime may iterate the set.
RECURSIVE SetOrders(_)
SetOrders(S) ==
    IF S = {} THEN {<<>>}
    ELSE UNION {{<<x>> \o p : p \in SetOrders(S \ {x})} : x \in S}

\* CollectionState.save: the JSON document written to checkpoint_path.  po, ho
\* and eo are the lists list(set) produced for the three identifier sets.
\* `nulls` names the keys whose JSON value is not of the type load expects.
SaveFile(st, po, ho, eo) ==
    [exists |-> TRUE, parsable |-> TRUE,
     keys |-> {"area_name", "category", "buffer_km", "use_subdivision",
               "completed_cells", "failed_cells", "businesses_count",
               "collected_place_ids", "collected_hex_ids", "enriched_place_ids"},
     nulls |-> {},
     area_name |-> st.area_name, category |-> st.category,
     buffer_km |-> st.buffer_km, use_subdivision |-> st.use_subdivision,
     completed_cells |-> st.completed_cells, failed_cells |-> st.failed_cells,
     businesses_count |-> st.businesses_count,
     collected_place_ids |-> po, collected_hex_ids |-> ho, enriched_place_ids |-> eo]

\* data.get(key, default) on the parsed document.
JsonGet(f, key, val, default) == IF key \in f.keys THEN val ELSE default

\* LoadFile leaving failed_cells at its default.
LoadFile_NoFailedCells(f) ==
    LET none == <<FALSE, NewState("", "", 0, FALSE)>> IN
    IF ~f.exists THEN none
    ELSE IF ~f.parsable THEN none
    ELSE IF ~({"area_name", "category"} \subseteq f.keys) THEN none
    ELSE <<TRUE,
           [area_name |-> f.area_name, category |-> f.category,
            buffer_km |-> JsonGet(f, "buffer_km", f.buffer_km, 5),
            use_subdivision |-> JsonGet(f, "use_subdivision", f.use_subdivision, FALSE),
            completed_cells |-> JsonGet(f, "completed_cells", f.completed_cells, <<>>),
            failed_cells |-> <<>>,
            businesses_count |-> JsonGet(f, "businesses_count", f.businesses_count, 0),
            collected_place_ids |-> JsonGet(f, "collected_place_ids", Range(f.collected_place_ids), {}),
            collected_hex_ids |-> JsonGet(f, "collected_hex_ids", Range(f.collected_hex_ids), {}),
            enriched_place_ids |-> JsonGet(f, "enriched_place_ids", Range(f.enriched_place_ids), {}),
            untyped |-> {}]>>

\* LoadFile leaving collected_hex_ids at its default.
LoadFile_NoHexIds(f) ==
    LET none == <<FALSE, NewState("", "", 0, FALSE)>> IN
    IF ~f.exists THEN none
    ELSE IF ~f.parsable THEN none
    ELSE IF ~({"area_name", "category"} \subseteq f.keys) THEN none
    ELSE IF \E k \in {"collected_place_ids", "collected_hex_ids", "enriched_place_ids"} :
                k \in f.keys /\ k \in f.nulls THEN none
    ELSE <<TRUE,
           [area_name |-> f.area_name, category |-> f.category,
            buffer_km |-> JsonGet(f, "buffer_km", f.buffer_km, 5),
            use_subdivision |-> JsonGet(f, "use_subdivision", f.use_subdivision, FALSE),
            completed_cells |-> JsonGet(f, "completed_cells", f.completed_cells, <<>>),
            failed_cells |-> JsonGet(f, "failed_cells", f.failed_cells, <<>>),
            businesses_count |-> JsonGet(f, "businesses_count", f.businesses_count, 0),
            collected_place_ids |-> JsonGet(f, "collected_place_ids", Range(f.collected_place_ids), {}),
            collected_hex_ids |-> {},
            enriched_place_ids |-> JsonGet(f, "enriched_place_ids", Range(f.enriched_place_ids), {}),
            untyped |-> f.keys \cap f.nulls \cap {"completed_cells", "failed_cells", "businesses_count"}]>>

\* CollectionState.load: <<found, state>>; found = FALSE stands for None.
LoadFile(f) ==
    LET none == <<FALSE, NewState("", "", 0, FALSE)>> IN
    IF ~f.exists THEN none
    ELSE IF ~f.parsable THEN none
    ELSE IF ~({"area_name", "category"} \subseteq f.keys) THEN none
    ELSE IF \E k \in {"collected_place_ids", "collected_hex_ids", "enriched_place_ids"} :
                k \in f.keys /\ k \in f.nulls THEN none
    ELSE <<TRUE,
           [area_name |-> f.area_name, category |-> f.category,
            buffer_km |-> JsonGet(f, "buffer_km", f.buffer_km, 5),
            use_subdivision |-> JsonGet(f, "use_subdivision", f.use_subdivision, FALSE),
            completed_cells |-> JsonGet(f, "completed_cells", f.completed_cells, <<>>),
            failed_cells |-> JsonGet(f, "failed_cells", f.failed_cells, <<>>),
            businesses_count |-> JsonGet(f, "businesses_count", f.businesses_count, 0),
            collected_place_ids |-> JsonGet(f, "collected_place_ids", Range(f.collected_place_ids), {}),
            collected_hex_ids |-> JsonGet(f, "collected_hex_ids", Range(f.collected_hex_ids), {}),
            enriched_place_ids |-> JsonGet(f, "enriched_place_ids", Range(f.enriched_place_ids), {}),
            untyped |-> f.keys \cap f.nulls \cap {"completed_cells", "failed_cells", "businesses_count"}]>>

\* ---------------------------------------------------------------- the state
VARIABLES
    pc,                \* position of collect_businesses_v2
    error,             \* the exception that left collect_businesses_v2, "" if none
    resume,            \* the resume argument
    parallel_workers,  \* the parallel_workers argument
    state,             \* the CollectionState
    checkpoint_file,   \* output/.checkpoint_<category>_<area>.json
    jsonl_file,        \* the append-only stream
    csv_file,          \* the tabular sink
    output_file,       \* the final consolidated document
    pending_cells,     \* cells submitted to the pool, in submission order
    workers,           \* max_workers of the pool
    query,             \* per cell: the call of query_cell_with_retry for it
    all_businesses,    \* the accepted list
    totals,            \* total_new, total_duplicates, total_filtered
    failed_cells,      \* the local list of cells to retry
    retry_list,        \* failed_cells[:] the Retry Pass iterates over
    retry_pos,         \* index of the Retry Pass in retry_list
    backend,           \* the streams the search backend serves in this run
    fault_budget,      \* write errors the environment may inject in this run
    enrich,            \* the enrich and enrich_reviews arguments
    enrichment,        \* the call of enrich_businesses_parallel, if any
    grid,              \* a boundary, a cell size and what generate_grid returned for them
    limiter,           \* a RateLimiter
    merge,             \* a record, fetched details, and what merging them gave
    callers,           \* the threads calling the limiter, its lock, and the calls made
    enrichment_rate_limiter, \* the RateLimiter the enrichment phase is given
    journal,           \* history: the limiter and backend calls made, in order
    review_call,       \* a call of fetch_reviews
    sink_faults,       \* write errors the environment has injected
    loaded,            \* history: the checkpoint file read at start-up and what load made of it
    handed,            \* history: what the filter/dedup step has been given, counted
    queried,           \* history: per cell, the calls of query_cell_with_retry made for it
    processed          \* history: per cell, the records handed to the filter/dedup step

vars == <<pc, error, resume, parallel_workers, state, checkpoint_file, jsonl_file,
          csv_file, output_file, pending_cells, workers, query, all_businesses,
          totals, failed_cells, retry_list, retry_pos, backend, fault_budget,
          enrich, enrichment, grid, limiter, merge, callers,
          enrichment_rate_limiter, journal, review_call, sink_faults, loaded, handed, queried,
          processed>>

\* What a run is given and never changes: its arguments and its environment.
args == <<resume, parallel_workers, backend, fault_budget, enrich>>

\* The components modelled on their own; the steps of a run leave them alone.
aside == <<grid, limiter, merge, callers, enrichment_rate_limiter, journal,
           review_call>>

Cells == 1..NumCells

\* No call of enrich_businesses_parallel has been made.
NoEnrichment ==
    [st |-> "off", to_enrich |-> <<>>, futures |-> <<>>, enriched_list |-> <<>>,
     completed |-> 0, success_count |-> 0]

\* No grid has been asked for; no limiter is looked at.
NoGrid == [boundary |-> [south |-> 0, north |-> 0, west |-> 0, east |-> 0],
           cell_size |-> 0, calls |-> <<>>]
NoLimiter ==
    [base_delay |-> 0, max_delay |-> 0, current_delay |-> 0, consecutive_errors |-> 0,
     consecutive_successes |-> 0, last |-> "none"]

\* No thread is calling a limiter.
NoCallers == [lock |-> 0, th |-> <<>>, calls |-> <<>>, start |-> NoLimiter]

\* No call of fetch_reviews is looked at.
NoReviewCall ==
    [st |-> "none", limit |-> 0, page_size |-> 0, all_reviews |-> <<>>,
     pagination_token |-> FALSE, total_fetched |-> 0, attempt |-> 0,
     pages |-> <<>>, overfull |-> FALSE, failures |-> 0, last |-> <<"none", 0, 0>>]

\* No merge of fetched details is looked at.
NoMerge == [business |-> <<>>, details |-> <<>>, enriched |-> <<>>, done |-> FALSE]

\* A call of query_cell_with_retry.  page_failures (the failed attempts at the
\* current page) and fetched (the records of the pages that succeeded) are history.
IdleQuery ==
    [st |-> "idle", max_retries |-> 0, offset |-> 0, attempt |-> 0,
     all_results |-> <<>>, success |-> FALSE, page_failures |-> 0, fetched |-> <<>>]

\* Entry of query_cell_with_retry: all_results = [], offset = 0.
NewQuery(retries) ==
    [st |-> "running", max_retries |-> retries, offset |-> 0, attempt |-> 0,
     all_results |-> <<>>, success |-> FALSE, page_failures |-> 0, fetched |-> <<>>]

\* ------------------------------------------------- files found at start-up
\* A checkpoint left by an interrupted run that completed cell "0" and accepted RecA.
ResumeCheckpoint ==
    SaveFile([NewState(AreaName, Category, BufferKm, FALSE) EXCEPT
                  !.completed_cells = <<"0">>, !.businesses_count = 1,
                  !.collected_place_ids = {"p1"}, !.collected_hex_ids = {"h1"}],
             <<"p1">>, <<"h1">>, <<>>)

\* A checkpoint left by a run that finished with cell "1" failed.
FailedCheckpoint ==
    SaveFile([NewState(AreaName, Category, BufferKm, FALSE) EXCEPT
                  !.completed_cells = <<"0">>, !.failed_cells = <<"1">>,
                  !.businesses_count = 1,
                  !.collected_place_ids = {"p1"}, !.collected_hex_ids = {"h1"}],
             <<"p1">>, <<"h1">>, <<>>)

\* A file cut short while being written: json.load raises.
TruncatedCheckpoint == [ResumeCheckpoint EXCEPT !.parsable = FALSE]

\* A JSON document whose completed_cells is null instead of a list.
NullCellsCheckpoint == [ResumeCheckpoint EXCEPT !.nulls = {"completed_cells"}]

\* The sinks an earlier run left behind, if any.
EmptySink == [exists |-> FALSE, header |-> FALSE, lines |-> <<>>]
OldRecord == [RecA EXCEPT !.found_in = AreaName]
OldJsonl == [exists |-> TRUE, header |-> FALSE, lines |-> <<OldRecord>>]
OldCsv == [exists |-> TRUE, header |-> TRUE, lines |-> <<OldRecord>>]

\* enrich=False, enrich_reviews=False.
NoEnrich == [details |-> FALSE, reviews |-> FALSE]

Scenario(r, ck, old, streams, faults, enr) ==
    [resume |-> r, checkpoint |-> ck, old_sinks |-> old, streams |-> streams,
     faults |-> faults, enrich |-> enr]

\* The runs explored: every start-up situation against a small backend, a
\* first run against backends with every kind of record, first runs during
\* which a sink write fails, and runs, a first one and a resumed one, that
\* enrich what they collected.
Scenarios ==
    {Scenario(TRUE, NoFile, FALSE, {StreamAB}, 0, NoEnrich),
     Scenario(TRUE, NoFile, TRUE, {StreamAB}, 0, NoEnrich),
     Scenario(TRUE, ResumeCheckpoint, TRUE, {StreamAB}, 0, NoEnrich),
     Scenario(FALSE, ResumeCheckpoint, TRUE, {StreamAB}, 0, NoEnrich),
     Scenario(TRUE, FailedCheckpoint, TRUE, {StreamAB}, 0, NoEnrich),
     Scenario(TRUE, TruncatedCheckpoint, TRUE, {StreamAB}, 0, NoEnrich),
     Scenario(TRUE, NullCellsCheckpoint, TRUE, {StreamAB}, 0, NoEnrich),
     Scenario(TRUE, NoFile, FALSE, {StreamAB, StreamCA}, 0, NoEnrich),
     Scenario(TRUE, NoFile, FALSE, {StreamED, StreamFF}, 0, NoEnrich),
     Scenario(TRUE, NoFile, FALSE, {StreamCA}, MaxSinkFaults, NoEnrich),
     Scenario(TRUE, NoFile, FALSE, {StreamGA}, MaxSinkFaults, NoEnrich),
     Scenario(TRUE, NoFile, FALSE, {StreamGA}, 0,
              [details |-> TRUE, reviews |-> TRUE]),
     Scenario(TRUE, ResumeCheckpoint, TRUE, {StreamGA}, 0,
              [details |-> TRUE, reviews |-> TRUE])}

\* Nothing has been read at start-up yet.
NothingLoaded == [file |-> NoFile, found |-> FALSE, state |-> NewState("", "", 0, FALSE)]

\* Entry of collect_businesses_v2 in one of the scenarios scs.
InitWith(scs) ==
    /\ pc = "start"
    /\ error = ""
    /\ parallel_workers \in 1..MaxWorkers
    /\ state = NewState("", "", 0, FALSE)
    /\ \E sc \in scs :
          /\ resume = sc.resume
          /\ checkpoint_file = sc.checkpoint
          /\ jsonl_file = IF sc.old_sinks THEN OldJsonl ELSE EmptySink
          /\ csv_file = IF sc.old_sinks THEN OldCsv ELSE EmptySink
          /\ backend = sc.streams
          /\ fault_budget = sc.faults
          /\ enrich = sc.enrich
    /\ output_file = NoFile
    /\ pending_cells = <<>>
    /\ workers = 0
    /\ query = [c \in Cells |-> IdleQuery]
    /\ all_businesses = <<>>
    /\ totals = [new |-> 0, duplicates |-> 0, filtered |-> 0]
    /\ failed_cells = <<>>
    /\ retry_list = <<>>
    /\ retry_pos = 0
    /\ enrichment = NoEnrichment
    /\ grid = NoGrid
    /\ limiter = NoLimiter
    /\ merge = NoMerge
    /\ callers = NoCallers
    /\ enrichment_rate_limiter = NoLimiter
    /\ journal = <<>>
    /\ review_call = NoReviewCall
    /\ sink_faults = 0
    /\ loaded = NothingLoaded
    /\ handed = [total |-> 0, outside |-> 0, resubmitted |-> 0]
    /\ queried = [c \in Cells |-> 0]
    /\ processed = [c \in Cells |-> <<>>]

Init == InitWith(Scenarios)

\* ------------------------------------------------------------- start-up
\* collect_businesses_v2, "Try to resume from checkpoint".
Startup ==
    /\ pc = "start"
    /\ LET got == IF resume THEN LoadFile(checkpoint_file)
                  ELSE <<FALSE, NewState("", "", 0, FALSE)>>
       IN /\ state' = IF got[1] THEN got[2]
                      ELSE NewState(AreaName, Category, BufferKm, FALSE)
          /\ loaded' = [file |-> checkpoint_file, found |-> got[1], state |-> got[2]]
    /\ pc' = "resolve"
    /\ UNCHANGED <<args, aside, enrichment, error, checkpoint_file, jsonl_file, csv_file, output_file,
                   pending_cells, workers, query, all_businesses, totals, failed_cells,
                   retry_list, retry_pos, sink_faults, queried, processed, handed>>

\* PendingFrom without the completed-cell filter.
RECURSIVE PendingFrom_All(_, _)
PendingFrom_All(i, completed) ==
    IF i > NumCells THEN <<>> ELSE <<i>> \o PendingFrom_All(i + 1, completed)

\* [c for c in all_cells if c.cell_id not in completed_set]
RECURSIVE PendingFrom(_, _)
PendingFrom(i, completed) ==
    IF i > NumCells THEN <<>>
    ELSE (IF CellIds[i] \in completed THEN <<>> ELSE <<i>>) \o PendingFrom(i + 1, completed)

\* min(parallel_workers, len(pending_cells) or 1)
WorkerCount(pw, npending) == Min2(pw, IF npending = 0 THEN 1 ELSE npending)

\* BoundaryFails placed after the initialisation of the CSV sink.
BoundaryFails_AfterCsvInit ==
    /\ pc = "resolve"
    /\ pc' = "aborted"
    /\ error' = "boundary"
    /\ csv_file' = [exists |-> TRUE, header |-> TRUE, lines |-> <<>>]
    /\ UNCHANGED <<args, aside, enrichment, state, checkpoint_file, jsonl_file, output_file,
                   pending_cells, workers, query, all_businesses, totals, failed_cells,
                   retry_list, retry_pos, sink_faults, loaded, queried, processed,
                   handed>>

\* get_area_boundary raises: the run ends before any cell work.
BoundaryFails ==
    /\ pc = "resolve"
    /\ pc' = "aborted"
    /\ error' = "boundary"
    /\ UNCHANGED <<args, aside, enrichment, state, checkpoint_file, jsonl_file, csv_file, output_file,
                   pending_cells, workers, query, all_businesses, totals, failed_cells,
                   retry_list, retry_pos, sink_faults, loaded, queried, processed,
                   handed>>

\* From the boundary to the submission of every pending cell to the pool.
Prepare ==
    /\ pc = "resolve"
    /\ IF "completed_cells" \in state.untyped
       THEN \* set(state.completed_cells) raises TypeError
            /\ pc' = "aborted"
            /\ error' = "TypeError"
            /\ UNCHANGED <<csv_file, pending_cells, workers, query>>
       ELSE LET pend == PendingFrom(1, Range(state.completed_cells)) IN
            /\ pending_cells' = pend
            /\ csv_file' = IF resume /\ csv_file.exists THEN csv_file
                           ELSE [exists |-> TRUE, header |-> TRUE, lines |-> <<>>]
            /\ workers' = WorkerCount(parallel_workers, Len(pend))
            /\ query' = [c \in Cells |->
                            IF c \in Range(pend) THEN [IdleQuery EXCEPT !.st = "queued"]
                            ELSE IdleQuery]
            /\ pc' = IF pend = <<>> THEN "final" ELSE "parallel"
            /\ error' = error
    /\ UNCHANGED <<args, aside, enrichment, state, checkpoint_file, jsonl_file, output_file,
                   all_businesses, totals, failed_cells, retry_list, retry_pos,
                   sink_faults, loaded, queried, processed, handed>>

\* ---------------------------------------------------- query_cell_with_retry
\* A pool thread takes the next submitted cell (the pool's queue is FIFO).
StartQuery(c) ==
    /\ pc = "parallel"
    /\ query[c].st = "queued"
    /\ \A d \in Cells : d < c => query[d].st # "queued"
    /\ Cardinality({d \in Cells : query[d].st = "running"}) < workers
    /\ query' = [query EXCEPT ![c] = NewQuery(FirstPassRetries)]
    /\ queried' = [queried EXCEPT ![c] = @ + 1]
    /\ UNCHANGED <<args, aside, enrichment, pc, error, state, checkpoint_file, jsonl_file, csv_file,
                   output_file, pending_cells, workers, all_businesses, totals,
                   failed_cells, retry_list, retry_pos, sink_faults, loaded, processed,
                   handed>>

\* biz['found_in'] = cell.source_area (grid mode: the area name).
RECURSIVE Tag(_)
Tag(page) ==
    IF page = <<>> THEN <<>>
    ELSE <<[Head(page) EXCEPT !.found_in = AreaName]>> \o Tag(Tail(page))

\* return (cell.cell_id, all_results, success): the locals of the call are gone.
Return(q, ok) == [q EXCEPT !.st = "done", !.success = ok, !.offset = 0, !.attempt = 0]

\* An exception leaves query_cell_with_retry: the future holds it.
Raise(q) == [q EXCEPT !.st = "raised", !.offset = 0, !.attempt = 0]

\* AttemptFails giving the cell up one attempt early.
AttemptFails_OneShort(q) ==
    IF q.attempt < q.max_retries - 2
    THEN [q EXCEPT !.attempt = @ + 1, !.page_failures = @ + 1]
    ELSE Return([q EXCEPT !.page_failures = @ + 1], FALSE)

\* AttemptFails letting the exception of the last attempt escape.
AttemptFails_Raising(q) ==
    IF q.attempt < q.max_retries - 1
    THEN [q EXCEPT !.attempt = @ + 1, !.page_failures = @ + 1]
    ELSE Raise([q EXCEPT !.page_failures = @ + 1])

\* One attempt at the current page fails: execute_search raises.
AttemptFails(q) ==
    IF q.attempt < q.max_retries - 1
    THEN [q EXCEPT !.attempt = @ + 1, !.page_failures = @ + 1]
    ELSE Return([q EXCEPT !.page_failures = @ + 1], FALSE)

\* AttemptSucceeds moving on by two pages after a full one.
AttemptSucceeds_SkipsPage(q, page) ==
    LET got == [q EXCEPT !.all_results = @ \o Tag(page), !.fetched = @ \o Tag(page),
                         !.page_failures = 0]
    IN IF Len(page) = 0 THEN Return(got, TRUE)
       ELSE IF Len(page) < ResultsPerPage THEN Return(got, TRUE)
       ELSE [got EXCEPT !.offset = @ + 2 * ResultsPerPage, !.attempt = 0]

\* One attempt at the current page succeeds with `page`.
AttemptSucceeds(q, page) ==
    LET got == [q EXCEPT !.all_results = @ \o Tag(page), !.fetched = @ \o Tag(page),
                         !.page_failures = 0]
    IN IF Len(page) = 0 THEN Return(got, TRUE)
       ELSE IF Len(page) < ResultsPerPage THEN Return(got, TRUE)
       ELSE [got EXCEPT !.offset = @ + ResultsPerPage, !.attempt = 0]

\* One iteration of the attempt loop, in the parallel pass or in the Retry Pass.
SearchFails(c) ==
    /\ query[c].st = "running"
    /\ query' = [query EXCEPT ![c] = AttemptFails(@)]
    /\ UNCHANGED <<args, aside, enrichment, pc, error, state, checkpoint_file, jsonl_file, csv_file,
                   output_file, pending_cells, workers, all_businesses, totals,
                   failed_cells, retry_list, retry_pos, sink_faults, loaded, queried,
                   processed, handed>>

SearchReturns(c) ==
    /\ query[c].st = "running"
    /\ \E page \in PagesOf(backend) :
          /\ Len(page) = ResultsPerPage => query[c].offset < MaxPages * ResultsPerPage
          /\ query' = [query EXCEPT ![c] = AttemptSucceeds(@, page)]
    /\ UNCHANGED <<args, aside, enrichment, pc, error, state, checkpoint_file, jsonl_file, csv_file,
                   output_file, pending_cells, workers, all_businesses, totals,
                   failed_cells, retry_list, retry_pos, sink_faults, loaded, queried,
                   processed, handed>>

\* --------------------------------------------- the filter/dedup/stream step
\* is_in_boundary(lat, lng, boundary)
is_in_boundary(lat, lng, b) ==
    b.south <= lat /\ lat <= b.north /\ b.west <= lng /\ lng <= b.east

\* What the per-record loops read and write: the identifier sets, the accepted
\* list, the per-cell counters, the two sinks, and whether a write has raised.
Acc(st, all, jsonl, csv) ==
    [place_ids |-> st.collected_place_ids, hex_ids |-> st.collected_hex_ids,
     all |-> all, new |-> 0, dup |-> 0, filtered |-> 0,
     jsonl |-> jsonl, csv |-> csv, raised |-> FALSE]

FileAppend(f, biz) == [f EXCEPT !.exists = TRUE, !.lines = Append(@, biz)]

\* Collect with the hex_id left out of the seen set.
Collect_NoHexId(a, biz) ==
    [a EXCEPT !.place_ids = IF biz.place_id # "" THEN @ \cup {biz.place_id} ELSE @,
              !.all = Append(@, biz)]

\* "Add to collection": the identifier sets and the accepted list.
Collect(a, biz) ==
    [a EXCEPT !.place_ids = IF biz.place_id # "" THEN @ \cup {biz.place_id} ELSE @,
              !.hex_ids = IF biz.hex_id # "" THEN @ \cup {biz.hex_id} ELSE @,
              !.all = Append(@, biz)]

\* The body of "for biz in businesses" of the parallel pass, for one record.
\* fault names the write that raises for this record ("" for none).
ProcessParallel(a, biz, fault) ==
    IF /\ biz.latitude # None /\ biz.longitude # None
       /\ ~is_in_boundary(biz.latitude[1], biz.longitude[1], FilterBoundary)
    THEN [a EXCEPT !.filtered = @ + 1]
    ELSE IF biz.place_id # "" /\ biz.place_id \in a.place_ids
    THEN [a EXCEPT !.dup = @ + 1]
    ELSE IF biz.hex_id # "" /\ biz.hex_id \in a.hex_ids
    THEN [a EXCEPT !.dup = @ + 1]
    ELSE LET b == [Collect(a, biz) EXCEPT !.new = @ + 1] IN
         IF fault = "jsonl" THEN [b EXCEPT !.raised = TRUE]
         ELSE IF fault = "csv"
         THEN [b EXCEPT !.jsonl = FileAppend(@, biz), !.raised = TRUE]
         ELSE [b EXCEPT !.jsonl = FileAppend(@, biz), !.csv = FileAppend(@, biz)]

\* The body of "for biz in businesses" of the Retry Pass, for one record.
ProcessRetry(a, biz, fault) ==
    IF /\ Truthy(biz.latitude) /\ Truthy(biz.longitude)
       /\ ~is_in_boundary(biz.latitude[1], biz.longitude[1], FilterBoundary)
    THEN a
    ELSE IF biz.place_id # "" /\ biz.place_id \in a.place_ids
    THEN a
    ELSE IF biz.hex_id # "" /\ biz.hex_id \in a.hex_ids
    THEN a
    ELSE LET b == Collect(a, biz) IN
         IF fault # "" THEN [b EXCEPT !.raised = TRUE]
         ELSE [b EXCEPT !.jsonl = FileAppend(@, biz)]

\* The loop over one cell's records; the write for record number fault_at
\* raises `fault`, which ends the loop.  `done` counts the records handled.
RECURSIVE ProcessAll(_, _, _, _, _, _)
ProcessAll(a, bizs, i, retry, fault_at, fault) ==
    IF i > Len(bizs) \/ a.raised THEN [acc |-> a, done |-> i - 1]
    ELSE LET f == IF i = fault_at THEN fault ELSE ""
             b == IF retry THEN ProcessRetry(a, bizs[i], f)
                  ELSE ProcessParallel(a, bizs[i], f)
         IN ProcessAll(b, bizs, i + 1, retry, fault_at, fault)

\* The write errors the environment may inject while a cell's records are handled.
Faults(bizs, retry) ==
    {<<0, "">>} \cup
    IF sink_faults < fault_budget
    THEN {<<i, k>> : i \in 1..Len(bizs), k \in IF retry THEN {"jsonl"} ELSE {"jsonl", "csv"}}
    ELSE {}

\* A record with both coordinates that lies outside the filter boundary.
Outside(biz) ==
    /\ biz.latitude # None /\ biz.longitude # None
    /\ ~is_in_boundary(biz.latitude[1], biz.longitude[1], FilterBoundary)

\* History of the filter/dedup step: of the records bizs given to it when the
\* seen sets were those of st, how many there are, how many lie outside the
\* boundary, and how many come after a record with the same non-empty
\* place_id or hex_id that was inside the boundary.
RECURSIVE Given(_, _, _)
Given(h, st, bizs) ==
    IF bizs = <<>> THEN h
    ELSE LET biz == Head(bizs)
             seen == \/ biz.place_id # "" /\ biz.place_id \in st.collected_place_ids
                     \/ biz.hex_id # "" /\ biz.hex_id \in st.collected_hex_ids
             h1 == [h EXCEPT !.total = @ + 1]
         IN IF Outside(biz) THEN Given([h1 EXCEPT !.outside = @ + 1], st, Tail(bizs))
            ELSE IF seen THEN Given([h1 EXCEPT !.resubmitted = @ + 1], st, Tail(bizs))
            ELSE Given(h1,
                       [st EXCEPT !.collected_place_ids =
                                      IF biz.place_id # "" THEN @ \cup {biz.place_id} ELSE @,
                                  !.collected_hex_ids =
                                      IF biz.hex_id # "" THEN @ \cup {biz.hex_id} ELSE @],
                       Tail(bizs))

\* state.save(checkpoint_path) for some iteration order of the three sets.
Checkpoints(st) ==
    {SaveFile(st, po, ho, eo) : po \in SetOrders(st.collected_place_ids),
                                ho \in SetOrders(st.collected_hex_ids),
                                eo \in SetOrders(st.enriched_place_ids)}

\* -------------------------------------------------------- the parallel pass
\* One iteration of "for future in as_completed(future_to_cell)".
HandleResult(c) ==
    /\ pc = "parallel"
    /\ query[c].st \in {"done", "raised"}
    /\ IF query[c].st = "raised"
       THEN \* future.result() raises: except Exception
            /\ state' = [state EXCEPT !.failed_cells = Append(@, CellIds[c])]
            /\ processed' = [processed EXCEPT ![c] = <<>>]
            /\ UNCHANGED <<failed_cells, all_businesses, jsonl_file, csv_file, sink_faults,
                           totals, checkpoint_file, handed>>
       ELSE \E ft \in Faults(query[c].all_results, FALSE) :
            LET q == query[c]
                st1 == IF q.success
                       THEN [state EXCEPT !.completed_cells = Append(@, CellIds[c])]
                       ELSE [state EXCEPT !.failed_cells = Append(@, CellIds[c])]
                r == ProcessAll(Acc(st1, all_businesses, jsonl_file, csv_file),
                                q.all_results, 1, FALSE, ft[1], ft[2])
                a == r.acc
                st2 == [st1 EXCEPT !.collected_place_ids = a.place_ids,
                                   !.collected_hex_ids = a.hex_ids]
            IN
            /\ ft[1] > 0 => a.raised
            /\ failed_cells' = IF q.success THEN failed_cells ELSE Append(failed_cells, c)
            /\ all_businesses' = a.all
            /\ jsonl_file' = a.jsonl
            /\ csv_file' = a.csv
            /\ processed' = [processed EXCEPT ![c] = SubSeq(q.all_results, 1, r.done)]
            /\ handed' = Given(handed, state, SubSeq(q.all_results, 1, r.done))
            /\ sink_faults' = IF a.raised THEN sink_faults + 1 ELSE sink_faults
            /\ IF a.raised
               THEN \* except Exception: state.failed_cells.append(cell.cell_id)
                    /\ state' = [st2 EXCEPT !.failed_cells = Append(@, CellIds[c])]
                    /\ UNCHANGED <<totals, checkpoint_file>>
               ELSE LET st3 == [st2 EXCEPT !.businesses_count = Len(a.all)] IN
                    /\ state' = st3
                    /\ totals' = [new |-> totals.new + a.new,
                                  duplicates |-> totals.duplicates + a.dup,
                                  filtered |-> totals.filtered + a.filtered]
                    /\ IF st3.businesses_count % CheckpointInterval = 0
                       THEN checkpoint_file' \in Checkpoints(st3)
                       ELSE UNCHANGED checkpoint_file
    /\ query' = [query EXCEPT ![c].st = "handled"]
    /\ UNCHANGED <<args, aside, enrichment, pc, error, output_file, pending_cells, workers, retry_list,
                   retry_pos, loaded, queried>>

\* The pool has drained: "for cell in failed_cells[:]" starts.
BeginRetry ==
    /\ pc = "parallel"
    /\ \A c \in Cells : query[c].st \in {"idle", "handled"}
    /\ pc' = "retry"
    /\ retry_list' = failed_cells
    /\ retry_pos' = 1
    /\ UNCHANGED <<args, aside, enrichment, error, state, checkpoint_file, jsonl_file, csv_file,
                   output_file, pending_cells, workers, query, all_businesses, totals,
                   failed_cells, sink_faults, loaded, queried, processed, handed>>

\* ------------------------------------------------------------ the Retry Pass
\* The Retry Pass calls query_cell_with_retry(..., max_retries=5) for the next cell.
RetryQuery ==
    /\ pc = "retry"
    /\ retry_pos <= Len(retry_list)
    /\ LET c == retry_list[retry_pos] IN
          /\ query[c].st = "handled"
          /\ query' = [query EXCEPT ![c] = NewQuery(RetryPassRetries)]
          /\ queried' = [queried EXCEPT ![c] = @ + 1]
    /\ UNCHANGED <<args, aside, enrichment, pc, error, state, checkpoint_file, jsonl_file, csv_file,
                   output_file, pending_cells, workers, all_businesses, totals,
                   failed_cells, retry_list, retry_pos, sink_faults, loaded, processed,
                   handed>>

\* The rest of one iteration of the Retry Pass, once the query has returned.
RetryHandle ==
    /\ pc = "retry"
    /\ retry_pos <= Len(retry_list)
    /\ LET c == retry_list[retry_pos]
           q == query[c]
       IN
       /\ q.st \in {"done", "raised"}
       /\ IF q.st = "raised" \/ ~q.success
          THEN \* except Exception: pass, or success is False
               /\ processed' = [processed EXCEPT ![c] = <<>>]
               /\ UNCHANGED <<state, failed_cells, all_businesses, jsonl_file, sink_faults,
                              handed>>
          ELSE \E ft \in Faults(q.all_results, TRUE) :
               LET st1 == [state EXCEPT
                              !.failed_cells = IF CellIds[c] \in Range(@)
                                               THEN ListRemove(@, CellIds[c]) ELSE @,
                              !.completed_cells = Append(@, CellIds[c])]
                   r == ProcessAll(Acc(st1, all_businesses, jsonl_file, csv_file),
                                   q.all_results, 1, TRUE, ft[1], ft[2])
                   a == r.acc
               IN
               /\ ft[1] > 0 => a.raised
               /\ failed_cells' = ListRemove(failed_cells, c)
               /\ state' = [st1 EXCEPT !.collected_place_ids = a.place_ids,
                                       !.collected_hex_ids = a.hex_ids]
               /\ all_businesses' = a.all
               /\ jsonl_file' = a.jsonl
               /\ processed' = [processed EXCEPT ![c] = SubSeq(q.all_results, 1, r.done)]
               /\ handed' = Given(handed, state, SubSeq(q.all_results, 1, r.done))
               /\ sink_faults' = IF a.raised THEN sink_faults + 1 ELSE sink_faults
       /\ query' = [query EXCEPT ![c].st = "handled"]
    /\ retry_pos' = retry_pos + 1
    /\ UNCHANGED <<args, aside, enrichment, pc, error, checkpoint_file, csv_file, output_file,
                   pending_cells, workers, totals, retry_list, queried, loaded>>

EndRetry ==
    /\ pc = "retry"
    /\ retry_pos > Len(retry_list)
    /\ pc' = "final"
    /\ UNCHANGED <<args, aside, enrichment, error, state, checkpoint_file, jsonl_file, csv_file,
                   output_file, pending_cells, workers, query, all_businesses, totals,
                   failed_cells, retry_list, retry_pos, sink_faults, loaded, queried,
                   processed, handed>>

\* --------------------------------------------------------------- enrichment
\* checkpoint_interval=50 passed to enrich_businesses_parallel.
EnrichCheckpointInterval == 50

\* EnrichFilter putting every record in both lists.
EnrichFilter_KeepsAll(bizs, enriched, keep) == bizs

\* EnrichFilter taking no record as already enriched.
EnrichFilter_None(bizs, enriched, keep) == IF keep THEN <<>> ELSE bizs

\* The filter "already enriched" of enrich_businesses_parallel: the records of
\* bizs whose place_id is (keep = TRUE) or is not (keep = FALSE) in enriched.
RECURSIVE EnrichFilter(_, _, _)
EnrichFilter(bizs, enriched, keep) ==
    IF bizs = <<>> THEN <<>>
    ELSE (IF (Head(bizs).place_id \in enriched) = keep THEN <<Head(bizs)>> ELSE <<>>)
         \o EnrichFilter(Tail(bizs), enriched, keep)

\* What the backend makes of a details call and of a reviews call:
\* fetch_place_details returns a details dict, {} (an error response or an
\* exception, caught inside), or a value that is not a dict; fetch_reviews
\* returns reviews or none (its errors are caught inside).
DetailOutcomes == {"details", "empty", "malformed"}
ReviewOutcomes == {"reviews", "none"}

\* An exception leaves enrich_single_business: the future holds it.
EnrichRaise(biz) == [st |-> "raised", place_id |-> biz.place_id, biz |-> biz, success |-> FALSE]

\* enrich_single_business letting the exception of the merge loop escape.
enrich_single_business_Uncaught(biz, fetch_details, fetch_reviews_flag, d, r) ==
    LET want_d == fetch_details /\ biz.place_id # ""
        want_r == fetch_reviews_flag /\ biz.place_id # ""
    IN IF want_d /\ d = "malformed"
       THEN EnrichRaise(biz)
       ELSE [st |-> "ran", place_id |-> biz.place_id,
             biz |-> [biz EXCEPT !.details = @ \/ (want_d /\ d = "details"),
                                 !.reviews_data = @ \/ (want_r /\ r = "reviews")],
             success |-> TRUE]

\* enrich_single_business: (place_id, enriched, success).  details.items() on
\* a value that is not a dict raises inside the try: success = False and the
\* reviews call is skipped.  What an earlier enrichment put in the record stays.
enrich_single_business(biz, fetch_details, fetch_reviews_flag, d, r) ==
    LET want_d == fetch_details /\ biz.place_id # ""
        want_r == fetch_reviews_flag /\ biz.place_id # ""
    IN IF want_d /\ d = "malformed"
       THEN [st |-> "ran", place_id |-> biz.place_id, biz |-> biz, success |-> FALSE]
       ELSE [st |-> "ran", place_id |-> biz.place_id,
             biz |-> [biz EXCEPT !.details = @ \/ (want_d /\ d = "details"),
                                 !.reviews_data = @ \/ (want_r /\ r = "reviews")],
             success |-> TRUE]

\* "if (enrich or enrich_reviews) and all_businesses"
WantsEnrichment == (enrich.details \/ enrich.reviews) /\ all_businesses # <<>>

\* enrich_businesses_parallel up to the submission of every record to its pool.
EnrichBegin ==
    /\ pc = "final"
    /\ WantsEnrichment
    /\ enrichment.st = "off"
    /\ LET todo == EnrichFilter(all_businesses, state.enriched_place_ids, FALSE)
           already == EnrichFilter(all_businesses, state.enriched_place_ids, TRUE)
       IN enrichment' =
              IF todo = <<>>
              THEN [NoEnrichment EXCEPT !.st = "returned", !.enriched_list = all_businesses]
              ELSE [st |-> "running", to_enrich |-> todo,
                    futures |-> [i \in 1..Len(todo) |->
                                    [st |-> "queued", place_id |-> "", biz |-> todo[i],
                                     success |-> FALSE]],
                    enriched_list |-> already, completed |-> 0, success_count |-> 0]
    /\ UNCHANGED <<args, aside, pc, error, state, checkpoint_file, jsonl_file, csv_file,
                   output_file, pending_cells, workers, query, all_businesses, totals,
                   failed_cells, retry_list, retry_pos, sink_faults, loaded, queried,
                   processed, handed>>

\* A pool thread runs enrich_single_business on the next submitted record (the
\* call is one step, so the size of the pool does not show).
EnrichRun(i) ==
    /\ enrichment.st = "running"
    /\ enrichment.futures[i].st = "queued"
    /\ \A j \in 1..(i - 1) : enrichment.futures[j].st # "queued"
    /\ \E d \in DetailOutcomes, r \in ReviewOutcomes :
          enrichment' = [enrichment EXCEPT !.futures[i] =
                            enrich_single_business(enrichment.to_enrich[i], enrich.details,
                                                   enrich.reviews, d, r)]
    /\ UNCHANGED <<args, aside, pc, error, state, checkpoint_file, jsonl_file, csv_file,
                   output_file, pending_cells, workers, query, all_businesses, totals,
                   failed_cells, retry_list, retry_pos, sink_faults, loaded, queried,
                   processed, handed>>

\* One iteration of "for future in as_completed(future_to_biz)".
EnrichHandle(i) ==
    /\ enrichment.st = "running"
    /\ enrichment.futures[i].st \in {"ran", "raised"}
    /\ LET f == enrichment.futures[i]
           n == enrichment.completed + 1
           added == f.st = "ran" /\ f.success /\ f.place_id # ""
           st1 == IF added
                  THEN [state EXCEPT !.enriched_place_ids = @ \cup {f.place_id}]
                  ELSE state
       IN /\ enrichment' =
                 [enrichment EXCEPT
                     !.futures[i].st = "handled",
                     !.completed = n,
                     !.enriched_list = IF f.st = "ran" THEN Append(@, f.biz) ELSE @,
                     !.success_count = IF f.st = "ran" /\ f.success THEN @ + 1 ELSE @]
          /\ state' = st1
          /\ IF f.st = "ran" /\ n % EnrichCheckpointInterval = 0
             THEN checkpoint_file' \in Checkpoints(st1)
             ELSE UNCHANGED checkpoint_file
    /\ UNCHANGED <<args, aside, pc, error, jsonl_file, csv_file, output_file, pending_cells,
                   workers, query, all_businesses, totals, failed_cells, retry_list,
                   retry_pos, sink_faults, loaded, queried, processed, handed>>

\* The pool has drained: all_businesses = enrich_businesses_parallel(...).
EnrichReturn ==
    /\ enrichment.st = "running"
    /\ \A i \in 1..Len(enrichment.futures) : enrichment.futures[i].st = "handled"
    /\ enrichment' = [enrichment EXCEPT !.st = "returned"]
    /\ all_businesses' = enrichment.enriched_list
    /\ UNCHANGED <<args, aside, pc, error, state, checkpoint_file, jsonl_file, csv_file,
                   output_file, pending_cells, workers, query, totals, failed_cells,
                   retry_list, retry_pos, sink_faults, loaded, queried, processed,
                   handed>>

\* ------------------------------------------------------------- final output
\* Finish removing the checkpoint whatever failed_cells holds.
Finish_AlwaysRemoves ==
    /\ pc = "final"
    /\ WantsEnrichment => enrichment.st = "returned"
    /\ output_file' =
           [exists |-> TRUE,
            statistics |-> [total_cells |-> NumCells,
                            completed_cells |-> Len(state.completed_cells),
                            failed_cells |-> Len(state.failed_cells),
                            total_collected |-> Len(all_businesses),
                            duplicates_removed |-> totals.duplicates,
                            filtered_outside_boundary |-> totals.filtered],
            businesses |-> all_businesses]
    /\ checkpoint_file' = IF checkpoint_file.exists
                          THEN NoFile ELSE checkpoint_file
    /\ csv_file' = IF enrich.details \/ enrich.reviews
                   THEN [exists |-> TRUE, header |-> TRUE, lines |-> all_businesses]
                   ELSE csv_file
    /\ pc' = "done"
    /\ UNCHANGED <<args, aside, enrichment, error, state, jsonl_file, pending_cells, workers,
                   query, all_businesses, totals, failed_cells, retry_list, retry_pos,
                   sink_faults, loaded, queried, processed, handed>>

\* "Final output" to "return result".
Finish ==
    /\ pc = "final"
    /\ WantsEnrichment => enrichment.st = "returned"
    /\ output_file' =
           [exists |-> TRUE,
            statistics |-> [total_cells |-> NumCells,
                            completed_cells |-> Len(state.completed_cells),
                            failed_cells |-> Len(state.failed_cells),
                            total_collected |-> Len(all_businesses),
                            duplicates_removed |-> totals.duplicates,
                            filtered_outside_boundary |-> totals.filtered],
            businesses |-> all_businesses]
    /\ checkpoint_file' = IF checkpoint_file.exists /\ state.failed_cells = <<>>
                          THEN NoFile ELSE checkpoint_file
    /\ csv_file' = IF enrich.details \/ enrich.reviews
                   THEN [exists |-> TRUE, header |-> TRUE, lines |-> all_businesses]
                   ELSE csv_file
    /\ pc' = "done"
    /\ UNCHANGED <<args, aside, enrichment, error, state, jsonl_file, pending_cells, workers,
                   query, all_businesses, totals, failed_cells, retry_list, retry_pos,
                   sink_faults, loaded, queried, processed, handed>>

Next ==
    \/ Startup
    \/ BoundaryFails
    \/ Prepare
    \/ \E c \in Cells : StartQuery(c)
    \/ \E c \in Cells : SearchFails(c)
    \/ \E c \in Cells : SearchReturns(c)
    \/ \E c \in Cells : HandleResult(c)
    \/ BeginRetry
    \/ RetryQuery
    \/ RetryHandle
    \/ EndRetry
    \/ EnrichBegin
    \/ \E i \in DOMAIN enrichment.futures : EnrichRun(i)
    \/ \E i \in DOMAIN enrichment.futures : EnrichHandle(i)
    \/ EnrichReturn
    \/ Finish

Spec == Init /\ [][Next]_vars

\* ------------------------------------------- the checkpoint file on its own
\* The collection states a run can hold, within the bounds.
CheckpointStates ==
    {[NewState(AreaName, Category, buf, sub) EXCEPT
          !.completed_cells = cc, !.failed_cells = fc, !.businesses_count = n,
          !.collected_place_ids = ps, !.collected_hex_ids = hs,
          !.enriched_place_ids = es] :
        buf \in {0, BufferKm}, sub \in BOOLEAN,
        cc \in UNION {SetOrders(S) : S \in SUBSET Range(CellIds)},
        fc \in UNION {SetOrders(S) : S \in SUBSET Range(CellIds)},
        n \in 0..CheckpointInterval,
        ps \in SUBSET {"p1", "p2"}, hs \in SUBSET {"h1"}, es \in SUBSET {"p1", "p2"}}

\* A CollectionState S exists and no checkpoint file does.
CheckpointInit ==
    /\ pc = "unsaved"
    /\ error = ""
    /\ parallel_workers = 1
    /\ state \in CheckpointStates
    /\ resume = TRUE
    /\ checkpoint_file = NoFile
    /\ jsonl_file = EmptySink
    /\ csv_file = EmptySink
    /\ backend = {}
    /\ fault_budget = 0
    /\ enrich = NoEnrich
    /\ output_file = NoFile
    /\ pending_cells = <<>>
    /\ workers = 0
    /\ query = [c \in Cells |-> IdleQuery]
    /\ all_businesses = <<>>
    /\ totals = [new |-> 0, duplicates |-> 0, filtered |-> 0]
    /\ failed_cells = <<>>
    /\ retry_list = <<>>
    /\ retry_pos = 0
    /\ enrichment = NoEnrichment
    /\ grid = NoGrid
    /\ limiter = NoLimiter
    /\ merge = NoMerge
    /\ callers = NoCallers
    /\ enrichment_rate_limiter = NoLimiter
    /\ journal = <<>>
    /\ review_call = NoReviewCall
    /\ sink_faults = 0
    /\ loaded = NothingLoaded
    /\ handed = [total |-> 0, outside |-> 0, resubmitted |-> 0]
    /\ queried = [c \in Cells |-> 0]
    /\ processed = [c \in Cells |-> <<>>]

\* state.save(checkpoint_path)
Save ==
    /\ pc = "unsaved"
    /\ checkpoint_file' \in Checkpoints(state)
    /\ pc' = "saved"
    /\ UNCHANGED <<args, aside, enrichment, error, state, jsonl_file, csv_file, output_file,
                   pending_cells, workers, query, all_businesses, totals, failed_cells,
                   retry_list, retry_pos, sink_faults, loaded, queried, processed,
                   handed>>

\* CollectionState.load(checkpoint_path)
Load ==
    /\ pc = "saved"
    /\ LET got == LoadFile(checkpoint_file)
       IN loaded' = [file |-> checkpoint_file, found |-> got[1], state |-> got[2]]
    /\ pc' = "loaded"
    /\ UNCHANGED <<args, aside, enrichment, error, state, checkpoint_file, jsonl_file,
                   csv_file, output_file, pending_cells, workers, query, all_businesses,
                   totals, failed_cells, retry_list, retry_pos, sink_faults, queried,
                   processed, handed>>

CheckpointNext == Save \/ Load

CheckpointSpec == CheckpointInit /\ [][CheckpointNext]_vars

\* ------------------------------------------ runs against an unbounded backend
\* A first run with nothing on disk.
LiveScenarios == {Scenario(TRUE, NoFile, FALSE, {StreamAB}, 0, NoEnrich)}

LiveInit == InitWith(LiveScenarios)

\* The backend returns a full page at an offset past MaxPages pages: the loop
\* of query_cell_with_retry goes on to the next page.  Past that point the
\* offset is kept modulo two pages and the records of the page are not kept.
SearchOverflows(c) ==
    /\ query[c].st = "running"
    /\ query[c].offset >= MaxPages * ResultsPerPage
    /\ \E page \in PagesOf(backend) : Len(page) = ResultsPerPage
    /\ query' = [query EXCEPT
                     ![c].offset = IF @ = MaxPages * ResultsPerPage
                                   THEN @ + ResultsPerPage
                                   ELSE MaxPages * ResultsPerPage,
                     ![c].attempt = 0,
                     ![c].page_failures = 0]
    /\ UNCHANGED <<args, aside, enrichment, pc, error, state, checkpoint_file, jsonl_file,
                   csv_file, output_file, pending_cells, workers, all_businesses, totals,
                   failed_cells, retry_list, retry_pos, sink_faults, loaded, queried,
                   processed, handed>>

\* The steps of the thread that runs the query of cell c.
WorkerStep(c) ==
    StartQuery(c) \/ SearchFails(c) \/ SearchReturns(c) \/ SearchOverflows(c)

\* The steps of the main thread.
MainStep ==
    \/ Startup
    \/ BoundaryFails
    \/ Prepare
    \/ \E c \in Cells : HandleResult(c)
    \/ BeginRetry
    \/ RetryQuery
    \/ RetryHandle
    \/ EndRetry
    \/ Finish

LiveNext == MainStep \/ \E c \in Cells : WorkerStep(c)

\* Every thread that can take a step eventually takes one.
LiveSpec ==
    /\ LiveInit
    /\ [][LiveNext]_vars
    /\ WF_vars(MainStep)
    /\ \A c \in Cells : WF_vars(WorkerStep(c))

\* ------------------------------------------------- components on their own
\* No run of collect_businesses_v2 is under way.
NoRun ==
    /\ error = ""
    /\ resume = TRUE
    /\ parallel_workers = 1
    /\ state = NewState("", "", 0, FALSE)
    /\ checkpoint_file = NoFile
    /\ jsonl_file = EmptySink
    /\ csv_file = EmptySink
    /\ output_file = NoFile
    /\ backend = {}
    /\ fault_budget = 0
    /\ enrich = NoEnrich
    /\ pending_cells = <<>>
    /\ workers = 0
    /\ query = [c \in Cells |-> IdleQuery]
    /\ all_businesses = <<>>
    /\ totals = [new |-> 0, duplicates |-> 0, filtered |-> 0]
    /\ failed_cells = <<>>
    /\ retry_list = <<>>
    /\ retry_pos = 0
    /\ enrichment = NoEnrichment
    /\ sink_faults = 0
    /\ loaded = NothingLoaded
    /\ handed = [total |-> 0, outside |-> 0, resubmitted |-> 0]
    /\ queried = [c \in Cells |-> 0]
    /\ processed = [c \in Cells |-> <<>>]

\* ------------------------------------------------------------ generate_grid
\* Lengths are in ticks: one tick of latitude is one tick of cell size
\* (meters_to_lat_degrees is linear), and cell sizes are even so that half a
\* step is a whole number of ticks; round(x, 6) leaves such values as they are.
CellSizes == {2, 4}

\* The latitude, in ticks, from which 1 / cos(latitude) has reached 2.
StretchLat == 4

\* meters_to_lat_degrees(cell_size_meters)
meters_to_lat_degrees(meters) == meters

\* meters_to_lng_degrees(cell_size_meters, latitude): meters / (M * cos(latitude)),
\* with 1 / cos taken as 1 below StretchLat and 2 from there on.
meters_to_lng_degrees(meters, latitude) ==
    meters * (IF latitude >= StretchLat THEN 2 ELSE 1)

\* The inner loop of generate_grid: the cells of one row from current_lng on.
RECURSIVE GridRow(_, _, _, _, _)
GridRow(boundary, size, current_lat, current_lng, cell_id) ==
    IF current_lng > boundary.east THEN <<>>
    ELSE <<[cell_id |-> cell_id, center_lat |-> current_lat, center_lng |-> current_lng,
            radius_meters |-> size \div 2]>>
         \o GridRow(boundary, size, current_lat,
                    current_lng + meters_to_lng_degrees(size, current_lat), cell_id + 1)

\* The outer loop of generate_grid: the rows from current_lat on.
RECURSIVE GridRows(_, _, _, _)
GridRows(boundary, size, current_lat, cell_id) ==
    IF current_lat > boundary.north THEN <<>>
    ELSE LET lng_step == meters_to_lng_degrees(size, current_lat)
             row == GridRow(boundary, size, current_lat,
                            boundary.west + lng_step \div 2, cell_id)
         IN row \o GridRows(boundary, size, current_lat + meters_to_lat_degrees(size),
                            cell_id + Len(row))

\* generate_grid numbering its cells from 1.
generate_grid_FromOne(boundary, cell_size_meters) ==
    GridRows(boundary, cell_size_meters,
             boundary.south + meters_to_lat_degrees(cell_size_meters) \div 2, 1)

\* generate_grid(boundary, cell_size_meters)
generate_grid(boundary, cell_size_meters) ==
    GridRows(boundary, cell_size_meters,
             boundary.south + meters_to_lat_degrees(cell_size_meters) \div 2, 0)

\* cell_id=str(cell.cell_id): the identifiers collect_businesses_v2 gives the cells.
TaggedIds(cells) == [i \in 1..Len(cells) |-> ToString(cells[i].cell_id)]

\* The boundaries with north > south and east > west, within the bounds.
Boundaries ==
    {b \in [south : 0..MaxCoord, north : 0..MaxCoord,
            west : 0..MaxCoord, east : 0..MaxCoord] :
        b.north > b.south /\ b.east > b.west}

GridInit ==
    /\ pc = "grid"
    /\ NoRun
    /\ limiter = NoLimiter
    /\ merge = NoMerge
    /\ callers = NoCallers
    /\ enrichment_rate_limiter = NoLimiter
    /\ journal = <<>>
    /\ review_call = NoReviewCall
    /\ \E b \in Boundaries, size \in CellSizes :
          grid = [boundary |-> b, cell_size |-> size, calls |-> <<>>]

\* A call generate_grid(boundary, cell_size); two calls are followed.
GridCall ==
    /\ pc = "grid"
    /\ Len(grid.calls) < 2
    /\ grid' = [grid EXCEPT !.calls = Append(@, generate_grid(grid.boundary, grid.cell_size))]
    /\ UNCHANGED <<args, enrichment_rate_limiter, journal, review_call, limiter, merge, callers, enrichment,
                   pc, error, state, checkpoint_file,
                   jsonl_file, csv_file, output_file, pending_cells, workers, query,
                   all_businesses, totals, failed_cells, retry_list, retry_pos,
                   sink_faults, loaded, queried, processed, handed>>

GridNext == GridCall

GridSpec == GridInit /\ [][GridNext]_vars

\* -------------------------------------------------------------- RateLimiter
\* Delays are in hundredths of a second; a product with 0.9 is cut to a whole
\* number of them.
\* current_delay of a new RateLimiter (field default 0.1, init=False).
InitialDelay == 10
\* max_delay (default 30.0) and backoff_factor (default 2.0).
DefaultMaxDelay == 3000
BackoffFactor == 2
\* consecutive successes after which the delay is lowered.
SuccessStreak == 5

\* base_delay as configured: DELAY_BETWEEN_CELLS for collection, the default,
\* and 0.3 for enrichment; max_delay as configured: a low ceiling and the default.
BaseDelays == {5, 10, 30}
MaxDelays == {40, DefaultMaxDelay}

Max2(a, b) == IF a >= b THEN a ELSE b

\* RateLimiter(base_delay=base, max_delay=ceiling)
NewLimiter(base, ceiling) ==
    [base_delay |-> base, max_delay |-> ceiling, current_delay |-> InitialDelay,
     consecutive_errors |-> 0, consecutive_successes |-> 0, last |-> "none"]

\* record_success counting the streak without ever lowering the delay.
record_success_NeverLowers(l) ==
    LET n == l.consecutive_successes + 1 IN
    IF n >= SuccessStreak
    THEN [l EXCEPT !.consecutive_errors = 0, !.consecutive_successes = 0,
                   !.last = "success"]
    ELSE [l EXCEPT !.consecutive_errors = 0, !.consecutive_successes = n,
                   !.last = "success"]

\* RateLimiter.record_success; `last` is history: the last call made.
record_success(l) ==
    LET n == l.consecutive_successes + 1 IN
    IF n >= SuccessStreak
    THEN [l EXCEPT !.consecutive_errors = 0,
                   !.current_delay = Max2(l.base_delay, (l.current_delay * 9) \div 10),
                   !.consecutive_successes = 0,
                   !.last = "success"]
    ELSE [l EXCEPT !.consecutive_errors = 0, !.consecutive_successes = n,
                   !.last = "success"]

\* record_error with the same multiplier whatever is_rate_limit is.
record_error_NoDoubling(l, is_rate_limit) ==
    LET multiplier == BackoffFactor IN
    [l EXCEPT !.consecutive_errors = @ + 1,
              !.consecutive_successes = 0,
              !.current_delay = Min2(l.max_delay, l.current_delay * multiplier),
              !.last = IF is_rate_limit THEN "throttled" ELSE "error"]

\* RateLimiter.record_error(is_rate_limit); `last` tells the two kinds of call apart.
record_error(l, is_rate_limit) ==
    LET multiplier == IF is_rate_limit THEN BackoffFactor * 2 ELSE BackoffFactor IN
    [l EXCEPT !.consecutive_errors = @ + 1,
              !.consecutive_successes = 0,
              !.current_delay = Min2(l.max_delay, l.current_delay * multiplier),
              !.last = IF is_rate_limit THEN "throttled" ELSE "error"]

\* A limiter has just been constructed, for some floor and ceiling.
LimiterInit ==
    /\ pc = "limiter"
    /\ NoRun
    /\ grid = NoGrid
    /\ merge = NoMerge
    /\ callers = NoCallers
    /\ enrichment_rate_limiter = NoLimiter
    /\ journal = <<>>
    /\ review_call = NoReviewCall
    /\ \E base \in BaseDelays, ceiling \in MaxDelays :
          /\ base <= ceiling
          /\ limiter = NewLimiter(base, ceiling)

RecordSuccess ==
    /\ pc = "limiter"
    /\ limiter' = record_success(limiter)
    /\ UNCHANGED <<args, enrichment_rate_limiter, journal, review_call, grid, merge, callers, enrichment,
                   pc, error, state, checkpoint_file,
                   jsonl_file, csv_file, output_file, pending_cells, workers, query,
                   all_businesses, totals, failed_cells, retry_list, retry_pos,
                   sink_faults, loaded, queried, processed, handed>>

RecordError ==
    /\ pc = "limiter"
    /\ limiter.consecutive_errors < MaxErrorStreak
    /\ \E is_rate_limit \in BOOLEAN : limiter' = record_error(limiter, is_rate_limit)
    /\ UNCHANGED <<args, enrichment_rate_limiter, journal, review_call, grid, merge, callers, enrichment,
                   pc, error, state, checkpoint_file,
                   jsonl_file, csv_file, output_file, pending_cells, workers, query,
                   all_businesses, totals, failed_cells, retry_list, retry_pos,
                   sink_faults, loaded, queried, processed, handed>>

LimiterNext == RecordSuccess \/ RecordError

LimiterSpec == LimiterInit /\ [][LimiterNext]_vars

\* The workers go on getting pages: record_success keeps being called.
LimiterLiveSpec == LimiterInit /\ [][LimiterNext]_vars /\ WF_vars(RecordSuccess)

\* ------------------------------------------------- the size of the cell pool
\* MAX_PARALLEL_WORKERS of the configuration (imported by collector_v2, default 50).
MAX_PARALLEL_WORKERS == 50

\* parallel_workers as a caller may pass it (the command line takes any int),
\* and the numbers of pending cells looked at: around 0 and around the ceiling.
Parallelisms == (-1..3) \cup (49..52)
PendingCounts == (0..3) \cup (49..52)

\* collect_businesses_v2 has its pending cells and is about to size its pool.
PoolInit ==
    /\ pc = "pool"
    /\ error = ""
    /\ resume = TRUE
    /\ parallel_workers \in Parallelisms
    /\ \E n \in PendingCounts : pending_cells = [i \in 1..n |-> i]
    /\ workers = 0
    /\ state = NewState(AreaName, Category, BufferKm, FALSE)
    /\ checkpoint_file = NoFile
    /\ jsonl_file = EmptySink
    /\ csv_file = EmptySink
    /\ output_file = NoFile
    /\ backend = {}
    /\ fault_budget = 0
    /\ enrich = NoEnrich
    /\ query = [c \in Cells |-> IdleQuery]
    /\ all_businesses = <<>>
    /\ totals = [new |-> 0, duplicates |-> 0, filtered |-> 0]
    /\ failed_cells = <<>>
    /\ retry_list = <<>>
    /\ retry_pos = 0
    /\ enrichment = NoEnrichment
    /\ grid = NoGrid
    /\ limiter = NoLimiter
    /\ merge = NoMerge
    /\ callers = NoCallers
    /\ enrichment_rate_limiter = NoLimiter
    /\ journal = <<>>
    /\ review_call = NoReviewCall
    /\ sink_faults = 0
    /\ loaded = NothingLoaded
    /\ handed = [total |-> 0, outside |-> 0, resubmitted |-> 0]
    /\ queried = [c \in Cells |-> 0]
    /\ processed = [c \in Cells |-> <<>>]

\* "workers = min(...)", then, if there are pending cells,
\* ThreadPoolExecutor(max_workers=workers), which raises ValueError when
\* max_workers <= 0.
PoolSetup ==
    /\ pc = "pool"
    /\ LET w == WorkerCount(parallel_workers, Len(pending_cells)) IN
          /\ workers' = w
          /\ IF pending_cells # <<>> /\ w <= 0
             THEN pc' = "aborted" /\ error' = "ValueError"
             ELSE pc' = "pooled" /\ error' = error
    /\ UNCHANGED <<args, aside, enrichment, state, checkpoint_file, jsonl_file, csv_file,
                   output_file, pending_cells, query, all_businesses, totals,
                   failed_cells, retry_list, retry_pos, sink_faults, loaded, queried,
                   processed, handed>>

PoolNext == PoolSetup

PoolSpec == PoolInit /\ [][PoolNext]_vars

\* ------------------------------------- enrich_businesses_parallel on its own
\* RecA as an earlier enrichment left it.
PriorA == [RecA EXCEPT !.found_in = AreaName, !.details = TRUE, !.reviews_data = TRUE]

\* The lists handed to enrich_businesses_parallel: one or two records out of
\* a record already enriched, two records with identifiers, one without.
EnrichRecords == {PriorA} \cup Range(Tag(<<RecA, RecG, RecF>>))
EnrichInputs ==
    {<<x>> : x \in EnrichRecords} \cup {<<x, y>> : x, y \in EnrichRecords}

\* collect_businesses_v2 is at "if (enrich or enrich_reviews) and all_businesses"
\* with a state loaded from a checkpoint that lists enriched identifiers.
EnrichInit ==
    /\ pc = "final"
    /\ error = ""
    /\ resume = TRUE
    /\ parallel_workers = 1
    /\ \E ids \in SUBSET {"p1", "p5"} :
          /\ state = [NewState(AreaName, Category, BufferKm, FALSE) EXCEPT
                          !.collected_place_ids = ids, !.enriched_place_ids = ids]
          /\ loaded = [file |-> CHOOSE f \in Checkpoints(state) : TRUE,
                       found |-> TRUE, state |-> state]
          /\ checkpoint_file = loaded.file
    /\ all_businesses \in EnrichInputs
    /\ enrich \in {e \in [details : BOOLEAN, reviews : BOOLEAN] : e.details \/ e.reviews}
    /\ jsonl_file = [exists |-> TRUE, header |-> FALSE, lines |-> all_businesses]
    /\ csv_file = [exists |-> TRUE, header |-> TRUE, lines |-> all_businesses]
    /\ output_file = NoFile
    /\ backend = {}
    /\ fault_budget = 0
    /\ pending_cells = <<>>
    /\ workers = 1
    /\ query = [c \in Cells |-> IdleQuery]
    /\ totals = [new |-> 0, duplicates |-> 0, filtered |-> 0]
    /\ failed_cells = <<>>
    /\ retry_list = <<>>
    /\ retry_pos = 0
    /\ enrichment = NoEnrichment
    /\ grid = NoGrid
    /\ limiter = NoLimiter
    /\ merge = NoMerge
    /\ callers = NoCallers
    /\ enrichment_rate_limiter = NoLimiter
    /\ journal = <<>>
    /\ review_call = NoReviewCall
    /\ sink_faults = 0
    /\ handed = [total |-> 0, outside |-> 0, resubmitted |-> 0]
    /\ queried = [c \in Cells |-> 0]
    /\ processed = [c \in Cells |-> <<>>]

EnrichNext ==
    \/ EnrichBegin
    \/ \E i \in DOMAIN enrichment.futures : EnrichRun(i)
    \/ \E i \in DOMAIN enrichment.futures : EnrichHandle(i)
    \/ EnrichReturn

EnrichSpec == EnrichInit /\ [][EnrichNext]_vars

\* ------------------------------------------------- the merge of place details
\* The keys looked at and the values a key may hold: None, an empty string
\* (present and not None), or a text.
MergeKeys == {"phone", "website"}
OwnValues == {None, Some(""), Some("own")}
FetchedValues == {None, Some(""), Some("fetched")}

\* The dicts with keys among MergeKeys and values among vals.
Dicts(vals) == UNION {[ks -> vals] : ks \in SUBSET MergeKeys}

\* enriched[key] = value
DictSet(d, key, value) ==
    [k \in DOMAIN d \cup {key} |-> IF k = key THEN value ELSE d[k]]

\* MergeItem without the test on what the record holds.
MergeItem_Overwrite(enriched, key, value) ==
    IF value # None THEN DictSet(enriched, key, value) ELSE enriched

\* The body of "for key, value in details.items()".
MergeItem(enriched, key, value) ==
    IF value # None /\ (key \notin DOMAIN enriched \/ enriched[key] = None)
    THEN DictSet(enriched, key, value)
    ELSE enriched

\* The loop "for key, value in details.items()" over the keys not yet visited.
RECURSIVE MergeItems(_, _, _)
MergeItems(enriched, details, keys) ==
    IF keys = {} THEN enriched
    ELSE LET key == CHOOSE k \in keys : TRUE IN
         MergeItems(MergeItem(enriched, key, details[key]), details, keys \ {key})

\* enriched = dict(business), then "if details:" and the loop.
MergeDetails(business, details) ==
    IF DOMAIN details = {} THEN business
    ELSE MergeItems(business, details, DOMAIN details)

\* fetch_place_details has returned `details` for the record `business`.
MergeInit ==
    /\ pc = "merge"
    /\ NoRun
    /\ grid = NoGrid
    /\ limiter = NoLimiter
    /\ callers = NoCallers
    /\ enrichment_rate_limiter = NoLimiter
    /\ journal = <<>>
    /\ review_call = NoReviewCall
    /\ \E b \in Dicts(OwnValues), d \in Dicts(FetchedValues) :
          merge = [business |-> b, details |-> d, enriched |-> <<>>, done |-> FALSE]

MergeCall ==
    /\ pc = "merge"
    /\ ~merge.done
    /\ merge' = [merge EXCEPT !.enriched = MergeDetails(merge.business, merge.details),
                              !.done = TRUE]
    /\ UNCHANGED <<args, enrichment_rate_limiter, journal, review_call, grid, limiter, callers, enrichment,
                   pc, error, state, checkpoint_file,
                   jsonl_file, csv_file, output_file, pending_cells, workers, query,
                   all_businesses, totals, failed_cells, retry_list, retry_pos,
                   sink_faults, loaded, queried, processed, handed>>

MergeNext == MergeCall

MergeSpec == MergeInit /\ [][MergeNext]_vars

\* ------------------------------------------- one RateLimiter, several threads
\* record_success and record_error statement by statement: a thread reads a
\* field into a local (tmp) and writes it back in separate steps, and other
\* threads may run in between unless the lock keeps them out.
Threads == 1..NumThreads

\* The calls a thread may make.
LimiterCalls == {"success", "error", "throttled"}

IdleThread == [pc |-> "idle", op |-> "none", tmp |-> 0, left |-> CallsPerThread]

\* A limiter four successes into a streak.
Warm(l) == record_success(record_success(record_success(record_success(l))))

\* A limiter, new or warm, shared by threads that have not called it yet.
ThreadInit ==
    /\ pc = "threads"
    /\ NoRun
    /\ grid = NoGrid
    /\ merge = NoMerge
    /\ \E base \in BaseDelays, ceiling \in MaxDelays, warm \in BOOLEAN :
          /\ base <= ceiling
          /\ limiter = IF warm THEN Warm(NewLimiter(base, ceiling))
                       ELSE NewLimiter(base, ceiling)
    /\ callers = [lock |-> 0, th |-> [t \in Threads |-> IdleThread], calls |-> <<>>,
                  start |-> limiter]
    /\ enrichment_rate_limiter = NoLimiter
    /\ journal = <<>>
    /\ review_call = NoReviewCall

\* Thread t calls record_success(), record_error() or record_error(True).
Call(t) ==
    /\ pc = "threads"
    /\ callers.th[t].pc = "idle"
    /\ callers.th[t].left > 0
    /\ \E op \in LimiterCalls :
          callers' = [callers EXCEPT !.th[t].pc = "acquire", !.th[t].op = op,
                                     !.th[t].left = @ - 1, !.calls = Append(@, op)]
    /\ UNCHANGED <<args, enrichment_rate_limiter, journal, review_call, grid, limiter, merge, enrichment,
                   pc, error, state,
                   checkpoint_file, jsonl_file, csv_file, output_file, pending_cells,
                   workers, query, all_businesses, totals, failed_cells, retry_list,
                   retry_pos, sink_faults, loaded, queried, processed, handed>>

\* Acquire entering the body whoever holds the lock.
Acquire_NoLock(t) ==
    /\ pc = "threads"
    /\ callers.th[t].pc = "acquire"
    /\ callers' = [callers EXCEPT
                       !.lock = t,
                       !.th[t].pc = IF callers.th[t].op = "success" THEN "succ_read"
                                    ELSE "err_read"]
    /\ UNCHANGED <<args, enrichment_rate_limiter, journal, review_call, grid, limiter, merge, enrichment,
                   pc, error, state,
                   checkpoint_file, jsonl_file, csv_file, output_file, pending_cells,
                   workers, query, all_businesses, totals, failed_cells, retry_list,
                   retry_pos, sink_faults, loaded, queried, processed, handed>>

\* "with self._lock:" on entry: the thread goes on once the lock is free.
Acquire(t) ==
    /\ pc = "threads"
    /\ callers.th[t].pc = "acquire"
    /\ callers.lock = 0
    /\ callers' = [callers EXCEPT
                       !.lock = t,
                       !.th[t].pc = IF callers.th[t].op = "success" THEN "succ_read"
                                    ELSE "err_read"]
    /\ UNCHANGED <<args, enrichment_rate_limiter, journal, review_call, grid, limiter, merge, enrichment,
                   pc, error, state,
                   checkpoint_file, jsonl_file, csv_file, output_file, pending_cells,
                   workers, query, all_businesses, totals, failed_cells, retry_list,
                   retry_pos, sink_faults, loaded, queried, processed, handed>>

\* The next statement of the body thread th is in, on limiter l:
\* <<the limiter, the thread's position, the thread's local>> after it.
Statement(l, th) ==
    CASE th.pc = "succ_read" -> <<l, "succ_write", l.consecutive_successes>>
      [] th.pc = "succ_write" ->
             <<[l EXCEPT !.consecutive_successes = th.tmp + 1], "succ_zero", 0>>
      [] th.pc = "succ_zero" -> <<[l EXCEPT !.consecutive_errors = 0], "succ_test", 0>>
      [] th.pc = "succ_test" ->
             IF l.consecutive_successes >= SuccessStreak
             THEN <<l, "succ_delay", l.current_delay>>
             ELSE <<l, "release", 0>>
      [] th.pc = "succ_delay" ->
             <<[l EXCEPT !.current_delay = Max2(l.base_delay, (th.tmp * 9) \div 10)],
               "succ_reset", 0>>
      [] th.pc = "succ_reset" -> <<[l EXCEPT !.consecutive_successes = 0], "release", 0>>
      [] th.pc = "err_read" -> <<l, "err_write", l.consecutive_errors>>
      [] th.pc = "err_write" ->
             <<[l EXCEPT !.consecutive_errors = th.tmp + 1], "err_zero", 0>>
      [] th.pc = "err_zero" ->
             <<[l EXCEPT !.consecutive_successes = 0], "err_delay", l.current_delay>>
      [] th.pc = "err_delay" ->
             LET multiplier == IF th.op = "throttled" THEN BackoffFactor * 2
                               ELSE BackoffFactor
             IN <<[l EXCEPT !.current_delay = Min2(l.max_delay, th.tmp * multiplier)],
                  "release", 0>>

\* Thread t runs the next statement of the body it is in.
Body(t) ==
    /\ pc = "threads"
    /\ callers.th[t].pc \notin {"idle", "acquire", "release"}
    /\ LET next == Statement(limiter, callers.th[t]) IN
          /\ limiter' = next[1]
          /\ callers' = [callers EXCEPT !.th[t].pc = next[2], !.th[t].tmp = next[3]]
    /\ UNCHANGED <<args, enrichment_rate_limiter, journal, review_call, grid, merge, enrichment,
                   pc, error, state, checkpoint_file,
                   jsonl_file, csv_file, output_file, pending_cells, workers, query,
                   all_businesses, totals, failed_cells, retry_list, retry_pos,
                   sink_faults, loaded, queried, processed, handed>>

\* The end of the "with" block: the lock is released and the call returns.
Release(t) ==
    /\ pc = "threads"
    /\ callers.th[t].pc = "release"
    /\ callers' = [callers EXCEPT !.lock = IF @ = t THEN 0 ELSE @,
                                  !.th[t].pc = "idle", !.th[t].op = "none"]
    /\ limiter' = [limiter EXCEPT !.last = callers.th[t].op]
    /\ UNCHANGED <<args, enrichment_rate_limiter, journal, review_call, grid, merge, enrichment,
                   pc, error, state, checkpoint_file,
                   jsonl_file, csv_file, output_file, pending_cells, workers, query,
                   all_businesses, totals, failed_cells, retry_list, retry_pos,
                   sink_faults, loaded, queried, processed, handed>>

ThreadNext ==
    \E t \in Threads : Call(t) \/ Acquire(t) \/ Body(t) \/ Release(t)

ThreadSpec == ThreadInit /\ [][ThreadNext]_vars

\* ------------------------------------------- the limiters of the two phases
\* What the components below leave alone.
idle == <<args, grid, merge, callers, enrichment, error, state, checkpoint_file,
          jsonl_file, csv_file, output_file, pending_cells, workers,
          all_businesses, totals, failed_cells, retry_list, retry_pos,
          sink_faults, loaded, queried, processed, handed>>

\* DELAY_BETWEEN_CELLS of the configuration (0.05) and the base_delay that
\* collect_businesses_v2 gives the limiter of the enrichment phase (0.3).
DELAY_BETWEEN_CELLS == 5
EnrichBaseDelay == 30

\* The limiter calls of one phase that are looked at.
PhaseCalls == 3

\* The limiter calls the journal holds for a phase.
CallsIn(phase) == Cardinality({i \in DOMAIN journal : journal[i].phase = phase})

\* collect_businesses_v2 has constructed the limiter of the collection phase.
PhaseInit ==
    /\ pc = "collecting"
    /\ NoRun
    /\ grid = NoGrid
    /\ merge = NoMerge
    /\ callers = NoCallers
    /\ limiter = NewLimiter(DELAY_BETWEEN_CELLS, DefaultMaxDelay)
    /\ enrichment_rate_limiter = NoLimiter
    /\ journal = <<>>
    /\ review_call = NoReviewCall

\* A worker of the collection phase reports the outcome of a page request.
CollectionCall ==
    /\ pc = "collecting"
    /\ CallsIn("collection") < PhaseCalls
    /\ \E call \in {"success", "error", "throttled"} :
          /\ limiter' = IF call = "success" THEN record_success(limiter)
                        ELSE record_error(limiter, call = "throttled")
          /\ journal' = Append(journal, [phase |-> "collection", call |-> call])
    /\ UNCHANGED <<idle, pc, query, enrichment_rate_limiter, review_call>>

\* The collection phase is over; the limiter of the enrichment phase is made.
EnrichmentBegins ==
    /\ pc = "collecting"
    /\ pc' = "enriching"
    /\ enrichment_rate_limiter' = NewLimiter(EnrichBaseDelay, DefaultMaxDelay)
    /\ UNCHANGED <<idle, query, limiter, journal, review_call>>

\* enrich_single_business reports the outcome of a fetch: record_success()
\* or record_error(), to the limiter it was given.
EnrichmentCall ==
    /\ pc = "enriching"
    /\ CallsIn("enrichment") < PhaseCalls
    /\ \E call \in {"success", "error"} :
          /\ enrichment_rate_limiter' =
                IF call = "success" THEN record_success(enrichment_rate_limiter)
                ELSE record_error(enrichment_rate_limiter, FALSE)
          /\ journal' = Append(journal, [phase |-> "enrichment", call |-> call])
    /\ UNCHANGED <<idle, pc, query, limiter, review_call>>

PhaseNext == CollectionCall \/ EnrichmentBegins \/ EnrichmentCall

PhaseSpec == PhaseInit /\ [][PhaseNext]_vars

\* ------------------------------------- query_cell_with_retry and its limiter
\* get_backoff_delay starting from the adaptive delay instead of the floor.
get_backoff_delay_FromCurrent(l, attempt) ==
    LET delay == l.current_delay * (BackoffFactor ^ attempt) IN Min2(delay, l.max_delay)

\* RateLimiter.get_backoff_delay(attempt)
get_backoff_delay(l, attempt) ==
    LET delay == l.base_delay * (BackoffFactor ^ attempt) IN Min2(delay, l.max_delay)

\* The limiters a call is looked at with: the one collect_businesses_v2 makes,
\* and one whose ceiling the retry delays reach.
QueryLimiters ==
    {NewLimiter(DELAY_BETWEEN_CELLS, DefaultMaxDelay), NewLimiter(EnrichBaseDelay, 40)}

\* query_cell_with_retry has been called for cell 1, by the parallel pass or by
\* the Retry Pass.
QueryInit ==
    /\ pc = "query"
    /\ error = ""
    /\ resume = TRUE
    /\ parallel_workers = 1
    /\ state = NewState("", "", 0, FALSE)
    /\ checkpoint_file = NoFile
    /\ jsonl_file = EmptySink
    /\ csv_file = EmptySink
    /\ output_file = NoFile
    /\ backend = {StreamAB}
    /\ fault_budget = 0
    /\ enrich = NoEnrich
    /\ pending_cells = <<>>
    /\ workers = 0
    /\ \E retries \in {FirstPassRetries, RetryPassRetries} :
          query = [c \in Cells |-> IF c = 1 THEN NewQuery(retries) ELSE IdleQuery]
    /\ all_businesses = <<>>
    /\ totals = [new |-> 0, duplicates |-> 0, filtered |-> 0]
    /\ failed_cells = <<>>
    /\ retry_list = <<>>
    /\ retry_pos = 0
    /\ enrichment = NoEnrichment
    /\ sink_faults = 0
    /\ loaded = NothingLoaded
    /\ handed = [total |-> 0, outside |-> 0, resubmitted |-> 0]
    /\ queried = [c \in Cells |-> 0]
    /\ processed = [c \in Cells |-> <<>>]
    /\ grid = NoGrid
    /\ merge = NoMerge
    /\ callers = NoCallers
    /\ limiter \in QueryLimiters
    /\ enrichment_rate_limiter = NoLimiter
    /\ journal = <<>>
    /\ review_call = NoReviewCall

\* One pass of the attempt loop in which execute_search raises: wait(), the
\* request, record_error(is_rate_limit) and, unless it was the last attempt,
\* the sleep of get_backoff_delay(attempt).
PageFails ==
    /\ pc = "query"
    /\ query[1].st = "running"
    /\ \E is_rate_limit \in BOOLEAN :
          LET q == query[1]
              l == record_error(limiter, is_rate_limit)
          IN /\ limiter' = l
             /\ query' = [query EXCEPT ![1] = AttemptFails(q)]
             /\ journal' = journal
                   \o << <<"wait", limiter.current_delay>>,
                         <<"execute_search", q.offset>>,
                         <<"raised", 0>>,
                         <<"record_error", IF is_rate_limit THEN 1 ELSE 0>> >>
                   \o (IF q.attempt < q.max_retries - 1
                       THEN << <<"sleep", get_backoff_delay(l, q.attempt)>> >>
                       ELSE <<>>)
    /\ UNCHANGED <<idle, pc, enrichment_rate_limiter, review_call>>

\* One pass of the attempt loop in which execute_search returns a page: wait(),
\* the request, record_success(response_time), and what follows the page.
PageReturns ==
    /\ pc = "query"
    /\ query[1].st = "running"
    /\ \E page \in PagesOf(backend) :
          LET q == query[1] IN
          /\ Len(page) = ResultsPerPage => q.offset < MaxPages * ResultsPerPage
          /\ limiter' = record_success(limiter)
          /\ query' = [query EXCEPT ![1] = AttemptSucceeds(q, page)]
          /\ journal' = journal
                \o << <<"wait", limiter.current_delay>>,
                      <<"execute_search", q.offset>>,
                      <<"returned", Len(page)>>,
                      <<"record_success", 0>> >>
    /\ UNCHANGED <<idle, pc, enrichment_rate_limiter, review_call>>

QueryNext == PageFails \/ PageReturns

QuerySpec == QueryInit /\ [][QueryNext]_vars

\* ------------------------------------------------------------ fetch_reviews
\* max_retries of fetch_reviews (default 3; enrich_single_business passes none)
\* and the page size it never exceeds.
ReviewRetries == 3
MaxPageSize == 20

\* The limits and page sizes looked at: limits from 0, page sizes below and
\* above the largest one.
MaxReviewLimit == 4
ReviewLimits == 0..MaxReviewLimit
PageSizes == {1, 2, MaxPageSize + 1}

\* A call of fetch_reviews at its entry.  pages (the lengths of the pages
\* that arrived), overfull (a page was longer than requested), failures (the
\* failed requests) and last (the last request: its outcome, the length
\* received, the length requested) are history; a review is the number it
\* has in the backend's list.
NewReviewCall(limit, page_size) ==
    [st |-> "called", limit |-> limit, page_size |-> page_size, all_reviews |-> <<>>,
     pagination_token |-> FALSE, total_fetched |-> 0, attempt |-> 0,
     pages |-> <<>>, overfull |-> FALSE, failures |-> 0, last |-> <<"none", 0, 0>>]

\* "while total_fetched < limit": another page is asked for, or the call returns.
WhileTest(r) ==
    [r EXCEPT !.st = IF r.total_fetched < r.limit THEN "running" ELSE "returned",
              !.attempt = 0]

\* request_size = min(page_size, remaining)
RequestSize(r) == Min2(r.page_size, r.limit - r.total_fetched)

\* AfterPage going on to the next page without a continuation token.
AfterPage_IgnoresToken(r, n, token) ==
    LET size == RequestSize(r)
        got == [r EXCEPT !.all_reviews = @ \o [k \in 1..n |-> Len(r.all_reviews) + k],
                         !.total_fetched = @ + n,
                         !.pagination_token = token,
                         !.pages = Append(@, n),
                         !.overfull = @ \/ n > size,
                         !.last = <<"page", n, size>>]
    IN IF got.total_fetched = 0 THEN [got EXCEPT !.st = "returned"]
       ELSE IF n < size THEN [got EXCEPT !.st = "returned"]
       ELSE WhileTest(got)

\* A request is answered with a page of n reviews and, if token, a
\* continuation token: the page is kept, and the loop stops or goes on.
AfterPage(r, n, token) ==
    LET size == RequestSize(r)
        got == [r EXCEPT !.all_reviews = @ \o [k \in 1..n |-> Len(r.all_reviews) + k],
                         !.total_fetched = @ + n,
                         !.pagination_token = token,
                         !.pages = Append(@, n),
                         !.overfull = @ \/ n > size,
                         !.last = <<"page", n, size>>]
    IN IF ~token \/ got.total_fetched = 0 THEN [got EXCEPT !.st = "returned"]
       ELSE IF n < size THEN [got EXCEPT !.st = "returned"]
       ELSE WhileTest(got)

\* A request fails (a status other than 200, success false, or an exception):
\* another attempt, or after the last one the loop stops.
AfterFailure(r) ==
    LET size == RequestSize(r) IN
    IF r.attempt < ReviewRetries - 1
    THEN [r EXCEPT !.attempt = @ + 1, !.failures = @ + 1, !.last = <<"failed", 0, size>>]
    ELSE [r EXCEPT !.st = "returned", !.failures = @ + 1, !.last = <<"gave up", 0, size>>]

\* fetch_reviews has been called.
ReviewInit ==
    /\ pc = "reviews"
    /\ NoRun
    /\ grid = NoGrid
    /\ limiter = NoLimiter
    /\ merge = NoMerge
    /\ callers = NoCallers
    /\ enrichment_rate_limiter = NoLimiter
    /\ journal = <<>>
    /\ \E limit \in ReviewLimits, page_size \in PageSizes :
          review_call = NewReviewCall(limit, page_size)

\* "page_size = min(page_size, 20)" and the first test of the loop.
ReviewEnter ==
    /\ pc = "reviews"
    /\ review_call.st = "called"
    /\ review_call' = WhileTest([review_call EXCEPT
                                    !.page_size = Min2(@, MaxPageSize)])
    /\ UNCHANGED <<idle, pc, query, limiter, enrichment_rate_limiter, journal>>

\* One request of the attempt loop fails.
ReviewRequestFails ==
    /\ pc = "reviews"
    /\ review_call.st = "running"
    /\ review_call' = AfterFailure(review_call)
    /\ UNCHANGED <<idle, pc, query, limiter, enrichment_rate_limiter, journal>>

\* One request of the attempt loop is answered with a page, which may be
\* shorter or longer than requested.
ReviewPageArrives ==
    /\ pc = "reviews"
    /\ review_call.st = "running"
    /\ \E n \in 0..(RequestSize(review_call) + 1), token \in BOOLEAN :
          review_call' = AfterPage(review_call, n, token)
    /\ UNCHANGED <<idle, pc, query, limiter, enrichment_rate_limiter, journal>>

ReviewNext == ReviewEnter \/ ReviewRequestFails \/ ReviewPageArrives

\* The thread that called fetch_reviews keeps running, and every request
\* ends: with a response, or with the exception of its timeout.
ReviewSpec == ReviewInit /\ [][ReviewNext]_vars /\ WF_vars(ReviewNext)

\* ------------------------------------------------------------------ claims
IsDup(x, y) ==
    \/ x.place_id # "" /\ x.place_id = y.place_id
    \/ x.hex_id # "" /\ x.hex_id = y.hex_id

\* C1: no two records of the accepted list share a non-empty place_id or a
\* non-empty hex_id, whatever the number of workers and the order in which the
\* cell queries complete, over the parallel pass and the Retry Pass together.
C1_AcceptedOnce ==
    \A i, j \in 1..Len(all_businesses) :
        i < j => ~IsDup(all_businesses[i], all_businesses[j])

\* C1's case: two workers each fetched a record with place_id p1, a retried
\* cell succeeded, and the run finished with duplicates dropped.
C1_Witness ==
    /\ pc = "done"
    /\ workers = 2
    /\ \A c \in Cells : \E i \in 1..Len(query[c].fetched) : query[c].fetched[i].place_id = "p1"
    /\ \E c \in Cells : queried[c] = 2 /\ query[c].success
    /\ \E i \in 1..Len(all_businesses) : all_businesses[i].hex_id = "h1"

\* The cells a run has to query: the generated cells not in the completed
\* cells of the checkpoint it loaded (none when it started fresh).
ExpectedPending ==
    {c \in Cells : ~(loaded.found /\ CellIds[c] \in Range(loaded.file.completed_cells))}

\* C2: the cells submitted are exactly the generated cells that the loaded
\* checkpoint does not list as completed; only those are ever queried, and a
\* cell recorded as completed is not queued or queried, in either pass.
C2_OnlyPendingQueried ==
    /\ pc \in {"parallel", "retry", "final", "done"} => Range(pending_cells) = ExpectedPending
    /\ \A c \in Cells :
          /\ queried[c] > 0 => c \in ExpectedPending
          /\ query[c].st \in {"queued", "running"} =>
                 CellIds[c] \notin Range(state.completed_cells)

\* C2's case: a run resumed from a checkpoint with a completed cell has
\* finished after querying the other cell, in both passes.
C2_Witness ==
    /\ pc = "done"
    /\ loaded.found
    /\ \E c \in Cells : CellIds[c] \in Range(loaded.file.completed_cells) /\ queried[c] = 0
    /\ \E c \in Cells : queried[c] = 2

\* C3: a record given to the filter/dedup step after a record with the same
\* identifier was accepted is not accepted again and adds exactly one to the
\* duplicate counter: in a fresh run without write errors the duplicate
\* counter equals the number of such records, and no record is accepted twice.
C3_DuplicatesCounted ==
    sink_faults = 0 /\ ~loaded.found =>
        /\ totals.duplicates = handed.resubmitted
        /\ \A i, j \in 1..Len(all_businesses) :
               i < j /\ all_businesses[i].place_id # "" =>
                   all_businesses[i].place_id # all_businesses[j].place_id

\* C4: query_cell_with_retry reports failure exactly when the page it was at
\* failed max_retries times in a row, and a cell whose first query failed is,
\* until the Retry Pass re-queries it, in failed_cells and not in completed_cells.
C4_FailedIffExhausted ==
    \A c \in Cells :
        /\ query[c].st \in {"done", "handled"} =>
               (~query[c].success <=> query[c].page_failures = query[c].max_retries)
        /\ query[c].st = "handled" /\ ~query[c].success /\ queried[c] = 1 =>
               /\ CellIds[c] \in Range(state.failed_cells)
               /\ CellIds[c] \notin Range(state.completed_cells)

\* C4's case: the parallel pass is over and a cell whose second page failed
\* three times is recorded as failed.
C4_Witness ==
    /\ pc = "retry"
    /\ retry_pos = 1
    /\ \E c \in Cells :
          /\ query[c].st = "handled" /\ ~query[c].success
          /\ query[c].page_failures = FirstPassRetries
          /\ query[c].fetched # <<>>
          /\ CellIds[c] \in Range(state.failed_cells)

\* C5: every record of a page that succeeded is given to the filter/dedup
\* step, also when a later page of the cell exhausts its retries, in the
\* parallel pass and in the Retry Pass (stated for runs without write errors).
C5_PartialResultsKept ==
    \A c \in Cells :
        sink_faults = 0 /\ query[c].st = "handled" => processed[c] = query[c].fetched

\* C6: a record with both coordinates outside the filter boundary is never
\* accepted, never reaches a sink or the seen sets, and is counted as filtered,
\* in both passes (stated for runs without write errors).
C6_OutsideDropped ==
    /\ \A i \in 1..Len(all_businesses) : ~Outside(all_businesses[i])
    /\ \A i \in 1..Len(jsonl_file.lines) : ~Outside(jsonl_file.lines[i])
    /\ \A i \in 1..Len(csv_file.lines) : ~Outside(csv_file.lines[i])
    /\ {"p3", "p4"} \cap state.collected_place_ids = {}
    /\ sink_faults = 0 => totals.filtered = handed.outside

\* C7: load applied to the file save wrote returns a state whose five
\* collections are set-equal to those of the saved state, in whatever order
\* save listed the sets, and whose area, category, buffer, subdivision flag
\* and accepted count are equal to those of the saved state.
C7_RoundTrip ==
    pc = "loaded" =>
        /\ loaded.found
        /\ Range(loaded.state.completed_cells) = Range(state.completed_cells)
        /\ Range(loaded.state.failed_cells) = Range(state.failed_cells)
        /\ loaded.state.collected_place_ids = state.collected_place_ids
        /\ loaded.state.collected_hex_ids = state.collected_hex_ids
        /\ loaded.state.enriched_place_ids = state.enriched_place_ids
        /\ loaded.state.area_name = state.area_name
        /\ loaded.state.category = state.category
        /\ loaded.state.buffer_km = state.buffer_km
        /\ loaded.state.use_subdivision = state.use_subdivision
        /\ loaded.state.businesses_count = state.businesses_count

\* C7's case: a state with every collection non-empty was saved with its
\* place ids listed as p2, p1 and its enriched ids as p1, p2, and loaded back.
C7_Witness ==
    /\ pc = "loaded"
    /\ checkpoint_file.collected_place_ids = <<"p2", "p1">>
    /\ checkpoint_file.enriched_place_ids = <<"p1", "p2">>
    /\ checkpoint_file.collected_hex_ids = <<"h1">>
    /\ Len(state.completed_cells) = NumCells
    /\ state.failed_cells # <<>>
    /\ state.businesses_count = CheckpointInterval
    /\ state.use_subdivision

\* A document save can have written: every key present, every value of its type.
MatchesSchema(f) ==
    /\ f.exists
    /\ f.parsable
    /\ f.nulls = {}
    /\ {"area_name", "category", "buffer_km", "use_subdivision", "completed_cells",
        "failed_cells", "businesses_count", "collected_place_ids",
        "collected_hex_ids", "enriched_place_ids"} \subseteq f.keys

\* C8: a resumed run that finds no checkpoint file, or one that is unparsable
\* or does not match the schema, gets no checkpoint from load, raises nothing,
\* and starts from the empty state with every generated cell pending.
C8_BadCheckpointIsNone ==
    /\ pc # "start" /\ resume /\ ~MatchesSchema(loaded.file) => ~loaded.found
    /\ error # "TypeError"
    /\ pc = "resolve" /\ ~loaded.found => state = NewState(AreaName, Category, BufferKm, FALSE)
    /\ pc \in {"parallel", "retry", "final", "done"} /\ ~loaded.found =>
           Range(pending_cells) = Cells

\* C9: every run whose boundary resolution succeeds eventually returns its
\* final report, whatever the backend answers to each search call.
C9_Terminates == <>(pc = "done" \/ error = "boundary")

C11_BoundaryFailureTouchesNothing ==
    [][/\ pc = "start" =>
             UNCHANGED <<checkpoint_file, jsonl_file, csv_file, output_file, queried>>
       /\ pc' = "aborted" /\ error' = "boundary" =>
             /\ UNCHANGED <<state, checkpoint_file, jsonl_file, csv_file, output_file,
                            queried, query, all_businesses>>
             /\ \A c \in Cells : queried[c] = 0 /\ query[c].st = "idle"
             /\ state = IF loaded.found THEN loaded.state
                        ELSE NewState(AreaName, Category, BufferKm, FALSE)
             /\ checkpoint_file = loaded.file
             /\ ~output_file.exists]_vars

\* C11's case: a run that resumed from an existing checkpoint, with sinks of
\* an earlier run on disk, was ended by a boundary failure.
C11_Witness ==
    /\ pc = "aborted"
    /\ error = "boundary"
    /\ loaded.found
    /\ checkpoint_file.exists
    /\ jsonl_file.lines # <<>>
    /\ csv_file.lines # <<>>

\* C12: the final document of a finished run lists every accepted record:
\* every identifier in the seen sets of the state belongs to a record of the
\* document, also in a run resumed from a checkpoint.
C12_FinalDocumentComplete ==
    pc = "done" =>
        /\ \A p \in state.collected_place_ids :
               \E i \in 1..Len(output_file.businesses) :
                   output_file.businesses[i].place_id = p
        /\ \A h \in state.collected_hex_ids :
               \E i \in 1..Len(output_file.businesses) :
                   output_file.businesses[i].hex_id = h
        /\ output_file.statistics.total_collected = Len(output_file.businesses)

\* C13: when a run finishes with at least one failed cell, the checkpoint
\* file exists and load reads the run's final state from it: the final
\* completed and failed cells, identifier sets, accepted count and enriched
\* identifiers (stated for runs without write errors).
C13_FinalStatePersisted ==
    pc = "done" /\ state.failed_cells # <<>> /\ sink_faults = 0 =>
        /\ checkpoint_file.exists
        /\ LET saved == LoadFile(checkpoint_file)[2] IN
           /\ Range(saved.completed_cells) = Range(state.completed_cells)
           /\ Range(saved.failed_cells) = Range(state.failed_cells)
           /\ saved.collected_place_ids = state.collected_place_ids
           /\ saved.collected_hex_ids = state.collected_hex_ids
           /\ saved.enriched_place_ids = state.enriched_place_ids
           /\ saved.businesses_count = state.businesses_count

\* C14: a step removes the checkpoint file only if it is the step that
\* finishes the run, the state lists no failed cell, and no cell's last query
\* failed; so a run that finishes with a failed cell keeps its checkpoint.
C14_RemovedOnlyWithoutFailures ==
    [][checkpoint_file.exists /\ ~checkpoint_file'.exists =>
           /\ pc = "final" /\ pc' = "done"
           /\ state.failed_cells = <<>>
           /\ \A c \in Range(pending_cells) : query[c].success]_vars

\* C14's case: a run that resumed from a checkpoint finished with every cell
\* completed and removed the checkpoint.
C14_Witness ==
    /\ pc = "done"
    /\ loaded.found
    /\ ~checkpoint_file.exists
    /\ state.failed_cells = <<>>
    /\ \E c \in Cells : queried[c] = 2

\* C15: a cell that succeeds in the Retry Pass is in completed_cells and no
\* longer in failed_cells, and when a run ends no cell identifier is in both
\* lists, in a fresh run and in a run resumed from a checkpoint that lists
\* failed cells (stated for runs without write errors).
C15_CompletedAndFailedDisjoint ==
    sink_faults = 0 =>
        /\ \A c \in Cells :
               pc \in {"final", "done"} /\ queried[c] = 2 /\ query[c].success =>
                   /\ CellIds[c] \in Range(state.completed_cells)
                   /\ CellIds[c] \notin Range(state.failed_cells)
        /\ pc = "done" => Range(state.completed_cells) \cap Range(state.failed_cells) = {}

\* C16: a step of the parallel pass that takes the accepted count across a
\* multiple of checkpoint_interval (below k * interval before, at or above it
\* after) saves the checkpoint in that same step, so before the next cell
\* result is processed, wherever the multiple falls within the cell's records
\* (stated for runs that did not resume from a checkpoint).
C16_CheckpointOnCrossing ==
    [][pc = "parallel" /\ ~loaded.found
       /\ state'.businesses_count \div CheckpointInterval
              > state.businesses_count \div CheckpointInterval
       => checkpoint_file' \in Checkpoints(state')]_vars

\* The cell footprint: center +/- half a latitude step, +/- half that row's
\* longitude step (compared doubled, to stay in whole ticks).
InFootprint(cell, size, lat, lng) ==
    LET dlat == IF lat >= cell.center_lat THEN lat - cell.center_lat
                ELSE cell.center_lat - lat
        dlng == IF lng >= cell.center_lng THEN lng - cell.center_lng
                ELSE cell.center_lng - lng
    IN /\ 2 * dlat <= meters_to_lat_degrees(size)
       /\ 2 * dlng <= meters_to_lng_degrees(size, cell.center_lat)

\* C17: for every boundary with north > south and east > west and every cell
\* size, the grid generate_grid returns is not empty and every point inside
\* the boundary lies in the footprint of one of its cells.
C17_GridCovers ==
    \A k \in 1..Len(grid.calls) :
        LET cells == grid.calls[k] IN
        /\ cells # <<>>
        /\ \A lat \in grid.boundary.south..grid.boundary.north,
              lng \in grid.boundary.west..grid.boundary.east :
               \E i \in 1..Len(cells) : InFootprint(cells[i], grid.cell_size, lat, lng)

C19_FiveSuccessesLowerDelay ==
    [][limiter'.last = "success" =>
           IF limiter.consecutive_successes = SuccessStreak - 1
           THEN /\ limiter'.current_delay =
                       Max2(limiter.base_delay, (limiter.current_delay * 9) \div 10)
                /\ limiter.current_delay # limiter.base_delay =>
                       limiter'.current_delay < limiter.current_delay
                /\ limiter'.consecutive_successes = 0
                /\ limiter'.consecutive_errors = 0
           ELSE /\ limiter'.current_delay = limiter.current_delay
                /\ limiter'.consecutive_successes = limiter.consecutive_successes + 1]_vars

\* C20: in every state of a limiter, the initial one included, the delay is
\* between the configured floor and ceiling.
C20_DelayWithinBounds ==
    pc = "limiter" =>
        /\ limiter.base_delay <= limiter.current_delay
        /\ limiter.current_delay <= limiter.max_delay

\* C21: when there are pending cells, the pool of the parallel pass is built
\* with max(1, min(parallel_workers, MAX_PARALLEL_WORKERS, pending count))
\* workers, for every parallel_workers, above the ceiling and 0 or less included.
C21_WorkerCount ==
    pc \in {"pooled", "aborted"} /\ pending_cells # <<>> =>
        /\ pc = "pooled"
        /\ workers = Max2(1, Min2(Min2(parallel_workers, MAX_PARALLEL_WORKERS),
                                  Len(pending_cells)))

\* The number of records of bizs equal to biz.
Copies(bizs, biz) == Cardinality({i \in 1..Len(bizs) : bizs[i] = biz})

\* C22: enrich_businesses_parallel submits no record whose place_id is in the
\* enriched set of the checkpoint the state was loaded from, so no details or
\* reviews call is made for it, and what it returns holds every such record
\* of its input as it was.
C22_EnrichedPassedThrough ==
    [][/\ \A i \in DOMAIN enrichment'.futures :
              loaded.found =>
                  enrichment'.futures[i].biz.place_id \notin loaded.state.enriched_place_ids
       /\ enrichment.st # "returned" /\ enrichment'.st = "returned" =>
              \A i \in 1..Len(all_businesses) :
                  all_businesses[i].place_id \in loaded.state.enriched_place_ids =>
                      Copies(all_businesses', all_businesses[i])
                          = Copies(all_businesses, all_businesses[i])]_vars

\* C22's case: the call returned a list in which a record listed as enriched
\* in the checkpoint still lacks details, next to a record it enriched.
C22_Witness ==
    /\ enrichment.st = "returned"
    /\ Len(enrichment.to_enrich) = 1
    /\ \E i, j \in 1..Len(all_businesses) :
          /\ all_businesses[i].place_id \in loaded.state.enriched_place_ids
          /\ ~all_businesses[i].details
          /\ all_businesses[j].place_id \notin loaded.state.enriched_place_ids
          /\ all_businesses[j].details

\* The record holds a value other than None for the key.
Populated(d, k) == k \in DOMAIN d /\ d[k] # None

\* C23: after fetched details are merged into a record, every field that
\* held a value other than None before holds that same value, and a field
\* differs from what the record had only if it was missing or None before and
\* now holds the fetched value, which is not None; a missing or None field for
\* which a value was fetched holds it.
C23_MergeKeepsPopulated ==
    merge.done =>
        /\ \A k \in DOMAIN merge.business :
               /\ k \in DOMAIN merge.enriched
               /\ Populated(merge.business, k) => merge.enriched[k] = merge.business[k]
        /\ \A k \in DOMAIN merge.enriched :
               (k \notin DOMAIN merge.business \/ merge.enriched[k] # merge.business[k]) =>
                   /\ ~Populated(merge.business, k)
                   /\ Populated(merge.details, k)
                   /\ merge.enriched[k] = merge.details[k]
        /\ \A k \in DOMAIN merge.details :
               Populated(merge.details, k) /\ ~Populated(merge.business, k) =>
                   k \in DOMAIN merge.enriched /\ merge.enriched[k] = merge.details[k]

\* C23's case: details with a value for both keys were merged into a record
\* that had an empty phone and no website: the phone is as it was, the
\* website is the fetched one.
C23_Witness ==
    /\ merge.done
    /\ merge.business = [k \in {"phone"} |-> Some("")]
    /\ merge.details = [k \in MergeKeys |-> Some("fetched")]
    /\ merge.enriched["phone"] = Some("")
    /\ merge.enriched["website"] = Some("fetched")

\* C24: record_error sets the delay to min(ceiling, delay * backoff_factor),
\* or to min(ceiling, delay * 2 * backoff_factor) when is_rate_limit is set,
\* adds one to the error streak and resets the success streak; from the same
\* state the delay after a throttle-signalled error is never below the delay
\* after a generic error.
C24_ErrorBacksOff ==
    [][/\ limiter'.last = "error" /\ limiter' # limiter =>
              limiter'.current_delay =
                  Min2(limiter.max_delay, limiter.current_delay * BackoffFactor)
       /\ limiter'.last = "throttled" /\ limiter' # limiter =>
              /\ limiter'.current_delay =
                     Min2(limiter.max_delay, limiter.current_delay * 2 * BackoffFactor)
              /\ limiter'.current_delay
                     >= Min2(limiter.max_delay, limiter.current_delay * BackoffFactor)
       /\ limiter'.last \in {"error", "throttled"} /\ limiter' # limiter =>
              /\ limiter'.consecutive_errors = limiter.consecutive_errors + 1
              /\ limiter'.consecutive_successes = 0
              /\ limiter'.base_delay = limiter.base_delay
              /\ limiter'.max_delay = limiter.max_delay]_vars

\* C24's case: the second error in a row, a throttle-signalled one, on a
\* limiter with a low ceiling: the delay is cut at the ceiling.
C24_Witness ==
    /\ limiter.last = "throttled"
    /\ limiter.consecutive_errors = 2
    /\ limiter.consecutive_successes = 0
    /\ limiter.max_delay < 4 * 4 * InitialDelay
    /\ limiter.current_delay = limiter.max_delay

\* The limiter after the calls `calls` made one after the other in the order perm.
RECURSIVE InOrder(_, _, _)
InOrder(l, calls, perm) ==
    IF perm = <<>> THEN l
    ELSE LET op == calls[Head(perm)]
             l1 == IF op = "success" THEN record_success(l)
                   ELSE record_error(l, op = "throttled")
         IN InOrder(l1, calls, Tail(perm))

\* The delay and the two streak counters.
Counters(l) == <<l.current_delay, l.consecutive_errors, l.consecutive_successes>>

\* C25: whenever no call of a limiter shared by several threads is under way,
\* its delay and its streak counters are those that the calls made so far
\* give when made one after the other in some order: no increment of a
\* streak and no update of the delay is lost.
C25_CallsAtomic ==
    pc = "threads" /\ (\A t \in Threads : callers.th[t].pc = "idle") =>
        \E perm \in SetOrders(1..Len(callers.calls)) :
            Counters(InOrder(callers.start, callers.calls, perm)) = Counters(limiter)

\* C25's case: the threads have each made all their calls on a limiter that
\* was four successes into a streak, among them a success and a
\* throttle-signalled error, and the error streak stands at 2.
C25_Witness ==
    /\ pc = "threads"
    /\ \A t \in Threads : callers.th[t].pc = "idle" /\ callers.th[t].left = 0
    /\ \E i, j \in 1..Len(callers.calls) :
          callers.calls[i] = "success" /\ callers.calls[j] = "throttled"
    /\ callers.start.consecutive_successes = SuccessStreak - 1
    /\ limiter.consecutive_errors = 2

\* C26: a step of the Retry Pass that handles the records of a cell that now
\* succeeded leaves the identifier sets, the accepted list, the accepted
\* count, the duplicate and filtered counters, the append-only stream and the
\* tabular sink as the loop of the parallel pass would have left them for the
\* same records from the same state (stated for steps without a write error).
C26_RetrySameAsParallel ==
    [][pc = "retry" /\ retry_pos <= Len(retry_list) /\ retry_pos' = retry_pos + 1
       /\ sink_faults' = sink_faults
       => LET c == retry_list[retry_pos]
              q == query[c]
              r == ProcessAll(Acc(state, all_businesses, jsonl_file, csv_file),
                              q.all_results, 1, FALSE, 0, "")
          IN q.st = "done" /\ q.success =>
                 /\ state'.collected_place_ids = r.acc.place_ids
                 /\ state'.collected_hex_ids = r.acc.hex_ids
                 /\ all_businesses' = r.acc.all
                 /\ state'.businesses_count = Len(r.acc.all)
                 /\ totals' = [new |-> totals.new + r.acc.new,
                               duplicates |-> totals.duplicates + r.acc.dup,
                               filtered |-> totals.filtered + r.acc.filtered]
                 /\ jsonl_file' = r.acc.jsonl
                 /\ csv_file' = r.acc.csv]_vars

\* How many times x occurs in the list s.
Occurrences(s, x) == Cardinality({i \in 1..Len(s) : s[i] = x})

\* The cells this run's parallel pass has recorded in failed_cells of the state.
RecordedFailed ==
    {c \in Cells :
        Occurrences(state.failed_cells, CellIds[c])
            > IF loaded.found /\ "failed_cells" \notin loaded.state.untyped
              THEN Occurrences(loaded.state.failed_cells, CellIds[c]) ELSE 0}

\* C27: the Retry Pass starts once every query of the parallel pass has been
\* handled; it queries one cell at a time; the cells it queries are the cells
\* the parallel pass recorded as failed, each exactly once, with a retry
\* ceiling above that of the first pass; a cell that fails again is still in
\* failed_cells when the run goes on to its end.
C27_RetryPass ==
    /\ pc = "retry" =>
           \A c \in Cells :
               /\ query[c].st \notin {"queued"}
               /\ query[c].st \in {"running", "done", "raised"} =>
                      retry_pos <= Len(retry_list) /\ c = retry_list[retry_pos]
    /\ \A c \in Cells :
           /\ queried[c] <= 2
           /\ queried[c] = 2 =>
                  /\ pc \in {"retry", "final", "done"}
                  /\ query[c].max_retries = RetryPassRetries
                  /\ RetryPassRetries > FirstPassRetries
           /\ queried[c] = 1 /\ query[c].st # "idle" => query[c].max_retries = FirstPassRetries
    /\ pc = "retry" /\ retry_pos = 1 /\ (\A c \in Cells : queried[c] <= 1) =>
           Range(retry_list) = RecordedFailed
    /\ pc \in {"final", "done"} =>
           \A c \in Cells :
               /\ queried[c] = 2 <=> c \in Range(retry_list)
               /\ queried[c] = 2 /\ ~query[c].success =>
                      CellIds[c] \in Range(state.failed_cells)
    /\ pc \in {"retry", "final", "done"} => error = ""

\* C28: after every step of a run's two passes the accepted count of the
\* state is the number of records accepted so far, those of the loaded
\* checkpoint included, and no step after start-up lowers it (stated for
\* runs without write errors).
C28_CountIsAccepted ==
    [][sink_faults' = 0 /\ pc \in {"resolve", "parallel", "retry"} =>
           /\ state'.businesses_count >= state.businesses_count
           /\ state'.businesses_count =
                  (IF loaded.found THEN loaded.state.businesses_count ELSE 0)
                      + Len(all_businesses')]_vars

\* C29: no step of the parallel pass, the Retry Pass or the enrichment takes
\* an identifier out of the seen place ids, the seen hex ids or the enriched
\* ids, and a run that resumes from a checkpoint starts with every
\* identifier the checkpoint file lists.
C29_IdSetsOnlyGrow ==
    [][/\ pc # "start" =>
              /\ state.collected_place_ids \subseteq state'.collected_place_ids
              /\ state.collected_hex_ids \subseteq state'.collected_hex_ids
              /\ state.enriched_place_ids \subseteq state'.enriched_place_ids
       /\ pc = "start" /\ loaded'.found =>
              /\ Range(checkpoint_file.collected_place_ids)
                     \subseteq state'.collected_place_ids
              /\ Range(checkpoint_file.collected_hex_ids)
                     \subseteq state'.collected_hex_ids
              /\ Range(checkpoint_file.enriched_place_ids)
                     \subseteq state'.enriched_place_ids]_vars

\* C29's case: a run that resumed from a checkpoint listing p1 and h1 has
\* finished with a further place id and hex id seen and that place id
\* enriched.
C29_Witness ==
    /\ pc = "done"
    /\ loaded.found
    /\ {"p1", "p5"} \subseteq state.collected_place_ids
    /\ {"h1", "h5"} \subseteq state.collected_hex_ids
    /\ "p1" \in Range(loaded.file.collected_place_ids)
    /\ "p5" \in state.enriched_place_ids

\* C30: whenever a step of a run writes the checkpoint file, every place id
\* and hex id the file lists as seen belongs to a record of the append-only
\* stream, and every accepted record of a cell the file lists as completed
\* is in the stream, also after a write error cut a cell's records short.
C30_CheckpointIsResumePoint ==
    [][(/\ pc \in {"parallel", "retry", "final"}
        /\ checkpoint_file' # checkpoint_file
        /\ checkpoint_file'.exists)
       => (/\ \A p \in Range(checkpoint_file'.collected_place_ids) :
                  \E i \in 1..Len(jsonl_file'.lines) : jsonl_file'.lines[i].place_id = p
           /\ \A h \in Range(checkpoint_file'.collected_hex_ids) :
                  \E i \in 1..Len(jsonl_file'.lines) : jsonl_file'.lines[i].hex_id = h
           /\ \A c \in Cells :
                  CellIds[c] \in Range(checkpoint_file'.completed_cells) /\ queried[c] > 0 =>
                      \A i \in 1..Len(query[c].all_results) :
                          query[c].all_results[i] \in Range(all_businesses') =>
                              query[c].all_results[i] \in Range(jsonl_file'.lines))]_vars

\* C31: the enrichment phase paces its calls with the limiter of the
\* collection phase: once enrichment has begun, the delay and the streak
\* counters of the limiter it uses are those of the collection limiter, at
\* its first call and after every call of either phase.
C31_OneLimiter ==
    pc = "enriching" => Counters(enrichment_rate_limiter) = Counters(limiter)

\* The page requests of the journal (as positions in it), the request that
\* follows request i, and whether request i was answered with a page.
Requests == {i \in DOMAIN journal : journal[i][1] = "execute_search"}
NextRequest(i) ==
    IF \E j \in Requests : j > i
    THEN CHOOSE j \in Requests : j > i /\ \A k \in Requests : k > i => j <= k
    ELSE 0
Answered(i) == journal[i + 1][1] = "returned"
LastRequest == CHOOSE i \in Requests : \A k \in Requests : k <= i

\* C32: query_cell_with_retry asks for the pages at offsets 0, page size,
\* twice the page size, ... in that order: the first request is for offset 0,
\* the request after an answered one is for the next offset, the request after
\* a failed one is for the same offset; wait() is called right before every
\* request; and the call ends as successful exactly when a page comes back
\* empty or shorter than the page size.
C32_PagesInOrder ==
    pc = "query" =>
        /\ \A i \in Requests :
              /\ i > 1 /\ journal[i - 1][1] = "wait"
              /\ (\A k \in Requests : i <= k) => journal[i][2] = 0
              /\ NextRequest(i) # 0 =>
                    journal[NextRequest(i)][2] =
                        IF Answered(i) THEN journal[i][2] + ResultsPerPage
                        ELSE journal[i][2]
        /\ Requests # {} =>
              LET short == Answered(LastRequest)
                           /\ journal[LastRequest + 1][2] < ResultsPerPage
              IN /\ short => query[1].st = "done"
                 /\ query[1].st = "done" => (query[1].success <=> short)

\* A call that ended as successful after a failed attempt and two pages.
C32_Witness ==
    /\ pc = "query"
    /\ query[1].st = "done"
    /\ query[1].success
    /\ \E i \in Requests : ~Answered(i)
    /\ \E i \in Requests : journal[i][2] = ResultsPerPage

\* The limiter after the record_success and record_error calls of the
\* journal `calls`, made one after the other on l.
RECURSIVE Replay(_, _)
Replay(l, calls) ==
    IF calls = <<>> THEN l
    ELSE LET e == Head(calls)
             l1 == IF e[1] = "record_success" THEN record_success(l)
                   ELSE IF e[1] = "record_error" THEN record_error(l, e[2] = 1)
                   ELSE l
         IN Replay(l1, Tail(calls))

\* The failed requests for the offset of request i made before it: the
\* `attempt` of request i.
AttemptOf(i) ==
    Cardinality({k \in Requests : k < i /\ journal[k][2] = journal[i][2]})

\* min(base * factor^attempt, ceiling)
BackoffOf(attempt) ==
    Min2(limiter.base_delay * (BackoffFactor ^ attempt), limiter.max_delay)

\* C33: a failed page request is followed by one record_error and, unless it
\* was the last of the max_retries attempts at its page, by one sleep of
\* min(base * factor^attempt, ceiling), and the request after it is for the
\* same offset; an answered one is followed by one record_success; no
\* offset is requested more than max_retries times; and
\* the delay and the streak counters of the limiter are those that the
\* recorded record_error and record_success calls give, the retry delays
\* having read and changed none of them.
C33_RetriesAndBackoff ==
    pc = "query" =>
        /\ \A i \in Requests :
              LET last == IF NextRequest(i) = 0 THEN Len(journal)
                          ELSE NextRequest(i) - 2
                  after == SubSeq(journal, i + 2, last)
              IN IF Answered(i)
                 THEN after = << <<"record_success", 0>> >>
                 ELSE /\ Len(after) >= 1
                      /\ after[1][1] = "record_error"
                      /\ IF AttemptOf(i) < query[1].max_retries - 1
                         THEN after = <<after[1], <<"sleep", BackoffOf(AttemptOf(i))>> >>
                         ELSE Len(after) = 1 /\ NextRequest(i) = 0
                      /\ NextRequest(i) # 0 => journal[NextRequest(i)][2] = journal[i][2]
        /\ \A i \in Requests : AttemptOf(i) < query[1].max_retries
        /\ Counters(limiter) =
              Counters(Replay(NewLimiter(limiter.base_delay, limiter.max_delay), journal))

\* A call gave a page up after max_retries attempts, the retry delay having
\* reached the ceiling on the way, after an earlier page was answered.
C33_Witness ==
    /\ pc = "query"
    /\ query[1].st = "done"
    /\ ~query[1].success
    /\ \E i \in DOMAIN journal : journal[i] = <<"sleep", limiter.max_delay>>
    /\ \E i \in Requests : Answered(i)
    /\ \E i \in Requests : AttemptOf(i) = query[1].max_retries - 1

\* C34: a record that enrich_businesses_parallel has dealt with, and that
\* carried nothing of an earlier enrichment, has its identifier in the
\* enriched set exactly when the details call or the reviews call made for it
\* gave data.
C34_EnrichedIffSucceeded ==
    enrichment.st \in {"running", "returned"} =>
        \A i \in DOMAIN enrichment.futures :
            LET f == enrichment.futures[i]
                b == enrichment.to_enrich[i]
            IN f.st = "handled" /\ ~b.details /\ ~b.reviews_data =>
                  (b.place_id \in state.enriched_place_ids
                      <=> f.biz.details \/ f.biz.reviews_data)

\* The sum of the lengths of a list of pages.
RECURSIVE SumOf(_)
SumOf(ns) == IF ns = <<>> THEN 0 ELSE Head(ns) + SumOf(Tail(ns))

\* What holds of a call of fetch_reviews at every moment: what it has are the
\* reviews of the pages that arrived, in order; it has stopped as soon as the
\* limit is reached, a page was shorter than requested, a page came without
\* a continuation token, or a page failed its last retry, and goes on
\* otherwise; and if no page was longer than requested it holds at most
\* `limit` reviews.
ReviewsKept ==
    pc = "reviews" /\ review_call.st \in {"running", "returned"} =>
        LET r == review_call IN
        /\ r.all_reviews = [k \in 1..SumOf(r.pages) |-> k]
        /\ r.total_fetched = Len(r.all_reviews)
        /\ ~r.overfull => Len(r.all_reviews) <= r.limit
        /\ r.st = "returned" <=>
              \/ r.total_fetched >= r.limit
              \/ r.last[1] = "page" /\ (r.last[2] < r.last[3] \/ ~r.pagination_token)
              \/ r.last[1] = "gave up"

\* C35: fetch_reviews returns whatever the backend does, and ReviewsKept holds
\* of it throughout: it returns the reviews of the pages fetched, at most
\* `limit` of them when no page is longer than requested, and stops paging as
\* soon as one of its four reasons to stop arises.
C35_ReviewsTerminate ==
    /\ []ReviewsKept
    /\ <>(pc = "reviews" => review_call.st = "returned")

\* A call returns the reviews of two pages after a third page failed all of
\* its retries.
C35_Witness ==
    /\ pc = "reviews"
    /\ review_call.st = "returned"
    /\ Len(review_call.pages) = 2
    /\ Len(review_call.all_reviews) > 0
    /\ review_call.last[1] = "gave up"
    /\ review_call.failures = ReviewRetries

\* A record without what enrichment may have added to it, and the number of
\* records of bizs that are the record biz, enriched or not.
Origin(biz) == [biz EXCEPT !.details = FALSE, !.reviews_data = FALSE]
EntriesFor(bizs, biz) == Cardinality({i \in 1..Len(bizs) : Origin(bizs[i]) = Origin(biz)})

\* C36: what enrich_businesses_parallel returns holds, for every record of
\* its input, as many entries as the input does, and nothing else: no record
\* is dropped or duplicated, whatever the order in which the calls complete
\* and whether they succeed or not.
C36_OneEntryPerRecord ==
    [][enrichment.st # "returned" /\ enrichment'.st = "returned" =>
          /\ Len(all_businesses') = Len(all_businesses)
          /\ \A i \in 1..Len(all_businesses) :
                EntriesFor(all_businesses', all_businesses[i])
                    = EntriesFor(all_businesses, all_businesses[i])]_vars

\* The call returned two processed records in the reverse of the order they
\* were submitted in, the call for one of them having failed.
C36_Witness ==
    /\ enrichment.st = "returned"
    /\ Len(enrichment.to_enrich) = 2
    /\ \E i \in 1..2 : ~enrichment.futures[i].success
    /\ Origin(enrichment.to_enrich[1]) # Origin(enrichment.to_enrich[2])
    /\ Origin(all_businesses[1]) = Origin(enrichment.to_enrich[2])

\* C37: when a run in which no write failed has finished, the three counters
\* of the final statistics add up to the number of records that the parallel
\* pass and the Retry Pass were given by the pages that succeeded: every such
\* record was counted once, as accepted, as a duplicate or as filtered.
C37_EveryRecordCounted ==
    pc = "done" /\ sink_faults = 0 /\ output_file.exists =>
        output_file.statistics.total_collected
            + output_file.statistics.duplicates_removed
            + output_file.statistics.filtered_outside_boundary = handed.total

\* C38: when a run that started from a fresh state (resume off, or no usable
\* checkpoint) and in which no write failed has finished, the append-only
\* stream and the tabular sink each hold the records this run accepted, each
\* once, and nothing else, whatever sink files an earlier run left.
C38_FreshSinks ==
    pc = "done" /\ error = "" /\ sink_faults = 0 /\ ~loaded.found =>
        /\ Len(jsonl_file.lines) = Len(all_businesses)
        /\ Len(csv_file.lines) = Len(all_businesses)
        /\ csv_file.header
        /\ \A i \in 1..Len(all_businesses) :
              /\ EntriesFor(jsonl_file.lines, all_businesses[i]) = 1
              /\ EntriesFor(csv_file.lines, all_businesses[i]) = 1

\* C39: in a run of a limiter on which record_success keeps being called, if
\* from some moment on record_error is called no more, then from some moment
\* on the delay is the floor base_delay, and stays there.
C39_DelayReachesFloor ==
    <>[][~RecordError]_vars =>
        <>[](pc = "limiter" => limiter.current_delay = limiter.base_delay)

\* The delay has come down from above to a floor of 0.05 s by successes.
C39_Witness ==
    /\ pc = "limiter"
    /\ limiter.base_delay < InitialDelay
    /\ limiter.current_delay = limiter.base_delay
    /\ limiter.last = "success"

====
